---- MODULE Spec2Model ----
(***************************************************************************)
(* A model of the RustHTTP API client: the request configuration builder   *)
(* and its base64 encoder (src/models.rs), the request dispatcher and      *)
(* response normalizer (src/client.rs) and the text utilities              *)
(* (src/utils.rs).                                                         *)
(*                                                                         *)
(* Text is modelled as a sequence of Unicode code points (a Rust String    *)
(* seen through .chars()); a byte string as a sequence of 0..255.          *)
(***************************************************************************)
EXTENDS Integers, Sequences, FiniteSets, TLC

VARIABLES
    cfg,            \* models.rs: the RequestConfig being built
    credentials,    \* models.rs: the "user:password" text of the last with_basic_auth call
    b64_called,     \* models.rs: whether base64_encode has been called directly
    b64_input,      \* models.rs: the argument of that call
    b64_output,     \* models.rs: what it returned
    last_call,      \* models.rs: the most recent RequestConfig builder call and its arguments
    cj_json,        \* utils.rs colorize_json: the argument json
    cj_pos,         \* colorize_json: index of the next character of `chars`
    in_string,      \* colorize_json: let mut in_string
    escaped,        \* colorize_json: let mut escaped
    result,         \* colorize_json: let mut result
    cj_last,        \* colorize_json: what the last iteration of the scan read and pushed
    cj_pc,          \* colorize_json: "scan" inside the while loop, "done" once returned
    ph_str,         \* utils.rs parse_headers_string: the argument headers_str
    ph_lines,       \* parse_headers_string: the lines `headers_str.lines()` has yet to yield
    ph_headers,     \* parse_headers_string: let mut headers
    ph_result,      \* parse_headers_string: the Result returned
    ph_pc,          \* parse_headers_string: "loop" inside the for loop, "done" once returned
    jp_json,        \* utils.rs json_path_extract: the argument json_str
    jp_path,        \* json_path_extract: the argument path
    jp_parts,       \* json_path_extract: the parts the for loop has yet to visit
    jp_current,     \* json_path_extract: let mut current
    jp_result,      \* json_path_extract: the Result returned
    jp_pc,          \* json_path_extract: "start", "loop" inside the for loop, "done", "panicked"
    fs_bytes,       \* utils.rs format_size: the argument bytes, in base-1024 digits
    fs_size,        \* format_size: let mut size
    unit_index,     \* format_size: let mut unit_index
    fs_divisions,   \* format_size: how many times the loop body has run
    fs_result,      \* format_size: the String returned
    fs_pc,          \* format_size: "loop" at the while test, "done" once returned
    call,           \* client.rs: the HttpClient method called and its arguments
    request,        \* client.rs: the request built and handed to the transport
    send_count,     \* client.rs: how many times request.send() was invoked in the call
    send_outcome,   \* client.rs: what send().await gave back
    partial,        \* client.rs process_response: status, headers, content_type before the body
    read_count,     \* client.rs process_response: how many times response.text() was awaited
    hc_result,      \* client.rs: the Result<ApiResponse> the call returned
    hc_pc           \* client.rs: "idle", "sending" (at send().await), "reading" (at text().await), "done", "panicked"

modelsVars == <<cfg, credentials, b64_called, b64_input, b64_output, last_call>>
colorVars == <<cj_json, cj_pos, in_string, escaped, result, cj_last, cj_pc>>
headerVars == <<ph_str, ph_lines, ph_headers, ph_result, ph_pc>>
pathVars == <<jp_json, jp_path, jp_parts, jp_current, jp_result, jp_pc>>
sizeVars == <<fs_bytes, fs_size, unit_index, fs_divisions, fs_result, fs_pc>>
clientVars == <<call, request, send_count, send_outcome, partial, read_count, hc_result, hc_pc>>

vars == <<modelsVars, colorVars, headerVars, pathVars, sizeVars, clientVars>>

\* What the operations of one component leave alone.
notModels == <<colorVars, headerVars, pathVars, sizeVars, clientVars>>
notColor == <<modelsVars, headerVars, pathVars, sizeVars, clientVars>>
notHeaders == <<modelsVars, colorVars, pathVars, sizeVars, clientVars>>
notPath == <<modelsVars, colorVars, headerVars, sizeVars, clientVars>>
notSize == <<modelsVars, colorVars, headerVars, pathVars, clientVars>>
notClient == <<modelsVars, colorVars, headerVars, pathVars, sizeVars>>

(***************************************************************************)
(* Bounds of the model.                                                    *)
(***************************************************************************)
MaxB64Len == 4
MaxColorLen == 4
MaxHeaderLen == 5
MaxPathLen == 4
MaxBodyLen == 3
MaxRespHeaders == 2

(***************************************************************************)
(* Text helpers.                                                           *)
(***************************************************************************)
\* All sequences over S of length at most n.
SeqsUpTo(S, n) == UNION {[1..k -> S] : k \in 0..n}

RECURSIVE Concat(_)
Concat(ss) == IF ss = <<>> THEN <<>> ELSE Head(ss) \o Concat(Tail(ss))

\* str::as_bytes: the UTF-8 encoding of one code point.
Utf8Char(cp) ==
    IF cp < 128 THEN <<cp>>
    ELSE IF cp < 2048 THEN <<192 + (cp \div 64), 128 + (cp % 64)>>
    ELSE IF cp < 65536
        THEN <<224 + (cp \div 4096), 128 + ((cp \div 64) % 64), 128 + (cp % 64)>>
    ELSE <<240 + (cp \div 262144), 128 + ((cp \div 4096) % 64),
           128 + ((cp \div 64) % 64), 128 + (cp % 64)>>

\* str::as_bytes of a text.
as_bytes(s) == Concat([i \in 1..Len(s) |-> Utf8Char(s[i])])

(***************************************************************************)
(* models.rs: base64_encode                                                *)
(***************************************************************************)
\* "ABCDEFGHIJKLMNOPQRSTUVWXYZabcdefghijklmnopqrstuvwxyz0123456789+/"
b64_chars ==
    [i \in 1..26 |-> 64 + i] \o [i \in 1..26 |-> 96 + i]
        \o [i \in 1..10 |-> 47 + i] \o <<43, 47>>

\* '='
PadChar == 61

\* chars[idx as usize], idx counted from 0.
CharsAt(idx) == b64_chars[idx + 1]

\* let mut buf = [0u8; 3]; buf[i] = byte for the bytes of the chunk.
ChunkBuf(chunk) == [i \in 1..3 |-> IF i <= Len(chunk) THEN chunk[i] ELSE 0]

Pack_DropsLowByte(buf) == buf[1] * 65536 + buf[2] * 256

\* (buf[0] as u32) << 16 | (buf[1] as u32) << 8 | (buf[2] as u32):
\* the three fields do not overlap, so the ors are sums; the value fits 24 bits.
Pack(buf) == buf[1] * 65536 + buf[2] * 256 + buf[3]

\* (n >> shift) & 63
Sextet(n, shift) == (n \div (2 ^ shift)) % 64

ThirdChar_NeverPads(chunk, n) == CharsAt(Sextet(n, 6))

\* if chunk.len() > 1 { chars[((n >> 6) & 63)] } else { '=' }
ThirdChar(chunk, n) == IF Len(chunk) > 1 THEN CharsAt(Sextet(n, 6)) ELSE PadChar

\* if chunk.len() > 2 { chars[(n & 63)] } else { '=' }
FourthChar(chunk, n) == IF Len(chunk) > 2 THEN CharsAt(Sextet(n, 0)) ELSE PadChar

\* The body of the loop over bytes.chunks(3): the four characters one chunk adds.
EncodeChunk(chunk) ==
    LET n == Pack(ChunkBuf(chunk))
    IN  <<CharsAt(Sextet(n, 18)), CharsAt(Sextet(n, 12)),
          ThirdChar(chunk, n), FourthChar(chunk, n)>>

\* bytes.chunks(3): consecutive chunks of 3 bytes, the last one of 1..3 bytes.
RECURSIVE EncodeBytes(_)
EncodeBytes(bytes) ==
    IF bytes = <<>> THEN <<>>
    ELSE LET k == IF Len(bytes) < 3 THEN Len(bytes) ELSE 3
         IN  EncodeChunk(SubSeq(bytes, 1, k))
                 \o EncodeBytes(SubSeq(bytes, k + 1, Len(bytes)))

base64_encode(input) == EncodeBytes(as_bytes(input))

(***************************************************************************)
(* models.rs: RequestConfig                                                *)
(***************************************************************************)
AuthorizationKey == <<65,117,116,104,111,114,105,122,97,116,105,111,110>>  \* "Authorization"
BasicPrefix == <<66,97,115,105,99,32>>                                     \* "Basic "
ColonText == <<58>>                                                        \* ":"

\* RequestConfig::new()
new ==
    [headers |-> <<>>, pretty_print |-> FALSE,
     follow_redirects |-> TRUE, verify_ssl |-> TRUE]

MapInsert_KeepsOld(m, k, v) == [x \in (DOMAIN m) \cup {k} |-> IF x \in DOMAIN m THEN m[x] ELSE v]

\* HashMap::insert: the key's old value, if any, is replaced.
MapInsert(m, k, v) == [x \in (DOMAIN m) \cup {k} |-> IF x = k THEN v ELSE m[x]]

add_header(c, key, value) == [c EXCEPT !.headers = MapInsert(c.headers, key, value)]

with_headers(c, headers) == [c EXCEPT !.headers = headers]

with_pretty_print(c, pretty) == [c EXCEPT !.pretty_print = pretty]

with_redirects(c, follow) == [c EXCEPT !.follow_redirects = follow]

with_ssl_verification(c, verify) == [c EXCEPT !.verify_ssl = verify]

BearerPrefix == <<66,101,97,114,101,114,32>>                                \* "Bearer "

with_bearer_token(c, token) == add_header(c, AuthorizationKey, BearerPrefix \o token)

with_basic_auth(c, username, password) ==
    LET creds == username \o ColonText \o password
        encoded == base64_encode(creds)
    IN  add_header(c, AuthorizationKey, BasicPrefix \o encoded)

(***************************************************************************)
(* The models.rs specification: direct calls of base64_encode on every     *)
(* bounded text, and with_basic_auth on a configuration.                   *)
(***************************************************************************)
\* Code points of 1, 2 and 3 UTF-8 bytes: NUL, ':', 'a', DEL, e-acute, the euro sign.
B64Alphabet == {0, 58, 97, 127, 233, 8364}
B64Inputs == SeqsUpTo(B64Alphabet, MaxB64Len)
UserNames == {<<97>>, <<233, 58>>}
Passwords == {<<>>, <<112, 8364>>}

Base64Encode ==
    /\ ~b64_called
    /\ b64_called' = TRUE
    /\ b64_output' = base64_encode(b64_input)
    /\ UNCHANGED <<cfg, credentials, b64_input, last_call>>
    /\ UNCHANGED notModels

WithBasicAuth ==
    \E u \in UserNames, p \in Passwords :
        /\ cfg' = with_basic_auth(cfg, u, p)
        /\ credentials' = u \o ColonText \o p
        /\ last_call' = [op |-> "with_basic_auth", username |-> u, password |-> p]
        /\ UNCHANGED <<b64_called, b64_input, b64_output>>
        /\ UNCHANGED notModels

(***************************************************************************)
(* The builder specification: any chain of RequestConfig builder calls on  *)
(* RequestConfig::new(), of any length, over the argument sets below.      *)
(***************************************************************************)
NoCall == [op |-> "none"]

LowerAuthorizationKey == <<97,117,116,104,111,114,105,122,97,116,105,111,110>>   \* "authorization"
XaKey == <<88,45,65>>                                                     \* "X-A"
AcceptKey == <<65,99,99,101,112,116>>                                       \* "Accept"
ValueV == <<118>>                                                           \* "v"
ValueW == <<119>>                                                           \* "w"

\* Header names are case-sensitive HashMap keys.
HeaderNames == {AuthorizationKey, LowerAuthorizationKey, XaKey}
HeaderValues == {ValueV, ValueW}
Tokens == {<<>>, <<116>>}
HeaderMaps ==
    { <<>>,
      (AcceptKey :> ValueV),
      (AuthorizationKey :> ValueW) @@ (XaKey :> ValueV) }

WithHeaders ==
    \E headers \in HeaderMaps :
        /\ cfg' = with_headers(cfg, headers)
        /\ last_call' = [op |-> "with_headers", headers |-> headers]
        /\ UNCHANGED <<credentials, b64_called, b64_input, b64_output>>
        /\ UNCHANGED notModels

WithPrettyPrint ==
    \E pretty \in BOOLEAN :
        /\ cfg' = with_pretty_print(cfg, pretty)
        /\ last_call' = [op |-> "with_pretty_print", flag |-> pretty]
        /\ UNCHANGED <<credentials, b64_called, b64_input, b64_output>>
        /\ UNCHANGED notModels

WithRedirects ==
    \E follow \in BOOLEAN :
        /\ cfg' = with_redirects(cfg, follow)
        /\ last_call' = [op |-> "with_redirects", flag |-> follow]
        /\ UNCHANGED <<credentials, b64_called, b64_input, b64_output>>
        /\ UNCHANGED notModels

WithSslVerification ==
    \E verify \in BOOLEAN :
        /\ cfg' = with_ssl_verification(cfg, verify)
        /\ last_call' = [op |-> "with_ssl_verification", flag |-> verify]
        /\ UNCHANGED <<credentials, b64_called, b64_input, b64_output>>
        /\ UNCHANGED notModels

AddHeader ==
    \E key \in HeaderNames, value \in HeaderValues :
        /\ cfg' = add_header(cfg, key, value)
        /\ last_call' = [op |-> "add_header", key |-> key, value |-> value]
        /\ UNCHANGED <<credentials, b64_called, b64_input, b64_output>>
        /\ UNCHANGED notModels

WithBearerToken ==
    \E token \in Tokens :
        /\ cfg' = with_bearer_token(cfg, token)
        /\ last_call' = [op |-> "with_bearer_token", token |-> token]
        /\ UNCHANGED <<credentials, b64_called, b64_input, b64_output>>
        /\ UNCHANGED notModels

(***************************************************************************)
(* utils.rs: colorize_json.  One action per arm of the match, each a whole *)
(* iteration of the while loop, inner greedy loops included.               *)
(***************************************************************************)
Quote == 34
Backslash == 92
Colon == 58
Comma == 44
Dot == 46
Minus == 45
Plus == 43
LowerE == 101
UpperE == 69
Esc == 27

\* char::is_ascii_digit
is_ascii_digit(c) == c \in 48..57

\* char::is_alphabetic (the Unicode Alphabetic property), for code points below 256.
is_alphabetic(c) ==
    \/ c \in 65..90
    \/ c \in 97..122
    \/ c \in {170, 181, 186}
    \/ c \in 192..214
    \/ c \in 216..246
    \/ c \in 248..255

\* '{' | '}' | '[' | ']'
IsBracket(c) == c \in {123, 125, 91, 93}

\* The characters the inner number loop goes on consuming.
IsNumberTail(c) ==
    is_ascii_digit(c) \/ c = Dot \/ c = LowerE \/ c = UpperE \/ c = Plus \/ c = Minus

\* colored: a text with a style renders as ESC [ <codes> m <text> ESC [ 0 m.
Styled(codes, text) == <<Esc, 91>> \o codes \o <<109>> \o text \o <<Esc, 91, 48, 109>>

Green == <<51, 50>>             \* .green(): "32"
Yellow == <<51, 51>>            \* .yellow(): "33"
CyanBold == <<49, 59, 51, 54>>  \* .cyan().bold(): "1;36"
White == <<51, 55>>             \* .white(): "37"
Blue == <<51, 52>>              \* .blue(): "34"
Magenta == <<51, 53>>           \* .magenta(): "35"
Red == <<51, 49>>               \* .red(): "31"

TrueWord == <<116, 114, 117, 101>>        \* "true"
FalseWord == <<102, 97, 108, 115, 101>>   \* "false"
NullWord == <<110, 117, 108, 108>>        \* "null"

Arm_QuoteIgnoresEscaped(ch, in_str, esc) ==
    IF ch = Quote THEN "quote"
    ELSE IF ch = Backslash /\ in_str THEN "backslash"
    ELSE IF in_str THEN "string"
    ELSE IF ch = Colon THEN "colon"
    ELSE IF IsBracket(ch) THEN "bracket"
    ELSE IF ch = Comma THEN "comma"
    ELSE IF is_ascii_digit(ch) \/ ch = Dot \/ ch = Minus THEN "number"
    ELSE IF is_alphabetic(ch) THEN "word"
    ELSE "other"

\* match ch { ... }: the first arm, in source order, whose pattern and guard hold.
Arm(ch, in_str, esc) ==
    IF ch = Quote /\ ~esc THEN "quote"
    ELSE IF ch = Backslash /\ in_str THEN "backslash"
    ELSE IF in_str THEN "string"
    ELSE IF ch = Colon THEN "colon"
    ELSE IF IsBracket(ch) THEN "bracket"
    ELSE IF ch = Comma THEN "comma"
    ELSE IF is_ascii_digit(ch) \/ ch = Dot \/ ch = Minus THEN "number"
    ELSE IF is_alphabetic(ch) THEN "word"
    ELSE "other"

\* while let Some(&next_ch) = chars.peek() { if <tail> { chars.next() } else { break } }:
\* the index of the last character of the token that starts at pos.
RECURSIVE NumberEnd(_, _)
NumberEnd(json, pos) ==
    IF pos < Len(json) /\ IsNumberTail(json[pos + 1])
    THEN NumberEnd(json, pos + 1)
    ELSE pos

RECURSIVE WordEnd(_, _)
WordEnd(json, pos) ==
    IF pos < Len(json) /\ is_alphabetic(json[pos + 1])
    THEN WordEnd(json, pos + 1)
    ELSE pos

NumberText_DropsFirst(json, pos) == SubSeq(json, pos + 1, NumberEnd(json, pos))

\* let mut number = String::new(); number.push(ch); ... number.push(chars.next().unwrap())
NumberText(json, pos) == SubSeq(json, pos, NumberEnd(json, pos))

\* let mut word = String::new(); word.push(ch); ... word.push(chars.next().unwrap())
WordText(json, pos) == SubSeq(json, pos, WordEnd(json, pos))

\* match word.as_str() { "true" | "false" => magenta, "null" => red, _ => unstyled }
WordOut(word) ==
    IF word = TrueWord \/ word = FalseWord THEN Styled(Magenta, word)
    ELSE IF word = NullWord THEN Styled(Red, word)
    ELSE word

WordClass(word) ==
    IF word = TrueWord \/ word = FalseWord \/ word = NullWord THEN "keyword" ELSE "plain"

\* The character `chars.next()` yields in this iteration.
CjCh == cj_json[cj_pos]

CjScanning == cj_pc = "scan" /\ cj_pos <= Len(cj_json)

\* One iteration that reads the characters pos..last, pushes out, and leaves
\* the flags as given.
CjStep(arm, last, out, class, in_str, esc) ==
    /\ CjScanning
    /\ Arm(CjCh, in_string, escaped) = arm
    /\ cj_pos' = last + 1
    /\ result' = result \o out
    /\ in_string' = in_str
    /\ escaped' = esc
    /\ cj_last' = [pos |-> cj_pos, last |-> last, ch |-> CjCh, arm |-> arm,
                   in_string |-> in_string, escaped |-> escaped,
                   out |-> out, class |-> class]
    /\ UNCHANGED <<cj_json, cj_pc>>
    /\ UNCHANGED notColor

\* '"' if !escaped
CjQuote ==
    CjStep("quote", cj_pos, Styled(Green, <<CjCh>>), "string", ~in_string, escaped)

\* '\\' if in_string
CjBackslash ==
    CjStep("backslash", cj_pos, Styled(Green, <<CjCh>>), "string", in_string, ~escaped)

\* _ if in_string
CjInString ==
    CjStep("string", cj_pos, Styled(Green, <<CjCh>>), "string", in_string, FALSE)

\* ':'
CjColon ==
    CjStep("colon", cj_pos, Styled(Yellow, <<CjCh>>), "punctuation", in_string, escaped)

\* '{' | '}' | '[' | ']'
CjBracket ==
    CjStep("bracket", cj_pos, Styled(CyanBold, <<CjCh>>), "delimiter", in_string, escaped)

\* ','
CjComma ==
    CjStep("comma", cj_pos, Styled(White, <<CjCh>>), "punctuation", in_string, escaped)

\* _ if ch.is_ascii_digit() || ch == '.' || ch == '-'
CjNumber ==
    CjStep("number", NumberEnd(cj_json, cj_pos),
           Styled(Blue, NumberText(cj_json, cj_pos)), "number", in_string, escaped)

\* _ if ch.is_alphabetic()
CjWord ==
    CjStep("word", WordEnd(cj_json, cj_pos),
           WordOut(WordText(cj_json, cj_pos)),
           WordClass(WordText(cj_json, cj_pos)), in_string, escaped)

\* _ => { escaped = false; result.push(ch); }
CjOther ==
    CjStep("other", cj_pos, <<CjCh>>, "plain", in_string, FALSE)

\* chars.next() is None: the loop ends and result is returned.
CjReturn ==
    /\ cj_pc = "scan"
    /\ cj_pos > Len(cj_json)
    /\ cj_pc' = "done"
    /\ UNCHANGED <<cj_json, cj_pos, in_string, escaped, result, cj_last>>
    /\ UNCHANGED notColor

NoStep ==
    [pos |-> 0, last |-> 0, ch |-> 0, arm |-> "none", in_string |-> FALSE,
     escaped |-> FALSE, out |-> <<>>, class |-> "none"]

\* '"', '\', '1', '-', 'e', ':', '{', ' '
ColorAlphabet == {34, 92, 49, 45, 101, 58, 123, 32}

\* Longer inputs: {"a":1,"b":true}  null,[false]  "\\\"x":-1.5e+3  {"k\"":"a,1:}"}
\* e-acute "true" tru  1e5x  \"a"
ColorSamples ==
    { <<123,34,97,34,58,49,44,34,98,34,58,116,114,117,101,125>>,
      <<110,117,108,108,44,91,102,97,108,115,101,93>>,
      <<34,92,92,92,34,120,34,58,45,49,46,53,101,43,51>>,
      <<123,34,107,92,34,34,58,34,97,44,49,58,125,34,125>>,
      <<233,34,116,114,117,101,34,116,114,117>>,
      <<49,101,53,120>>,
      <<92,34,97,34>> }

ColorInputs == SeqsUpTo(ColorAlphabet, MaxColorLen) \cup ColorSamples

(***************************************************************************)
(* utils.rs: parse_headers_string.  One action per iteration of the loop   *)
(* over the lines.                                                         *)
(***************************************************************************)
Newline == 10
CarriageReturn == 13

\* char::is_whitespace (the Unicode White_Space property), for code points below 256.
is_whitespace(c) == c \in 9..13 \/ c \in {32, 133, 160}

RECURSIVE trim_start(_)
trim_start(s) ==
    IF s # <<>> /\ is_whitespace(Head(s)) THEN trim_start(Tail(s)) ELSE s

RECURSIVE trim_end(_)
trim_end(s) ==
    IF s # <<>> /\ is_whitespace(s[Len(s)])
    THEN trim_end(SubSeq(s, 1, Len(s) - 1))
    ELSE s

\* str::trim
trim(s) == trim_end(trim_start(s))

\* The index of the first c in s, 0 when s holds none.
RECURSIVE FindFrom(_, _, _)
FindFrom(s, c, i) ==
    IF i > Len(s) THEN 0
    ELSE IF s[i] = c THEN i
    ELSE FindFrom(s, c, i + 1)

Find(s, c) == FindFrom(s, c, 1)

\* A line without the "\r" of its "\r\n" ending.
StripCr(line) ==
    IF line # <<>> /\ line[Len(line)] = CarriageReturn
    THEN SubSeq(line, 1, Len(line) - 1)
    ELSE line

\* str::lines: the text is cut after each "\n"; a line loses its "\n" or
\* "\r\n"; a last line with no "\n" is kept as it is; no line follows a final "\n".
RECURSIVE lines(_)
lines(s) ==
    IF s = <<>> THEN <<>>
    ELSE LET nl == Find(s, Newline)
         IN  IF nl = 0 THEN <<s>>
             ELSE <<StripCr(SubSeq(s, 1, nl - 1))>> \o lines(SubSeq(s, nl + 1, Len(s)))

split_once_AtLastColon(line) ==
    LET cs == {i \in 1..Len(line) : line[i] = Colon}
        at == IF cs = {} THEN 0 ELSE CHOOSE i \in cs : \A j \in cs : j <= i
    IN  IF at = 0 THEN [found |-> FALSE]
        ELSE [found |-> TRUE, key |-> SubSeq(line, 1, at - 1),
              value |-> SubSeq(line, at + 1, Len(line))]

\* line.split_once(':'): the text before and after the first ':'.
split_once(line) ==
    LET at == Find(line, Colon)
    IN  IF at = 0 THEN [found |-> FALSE]
        ELSE [found |-> TRUE, key |-> SubSeq(line, 1, at - 1),
              value |-> SubSeq(line, at + 1, Len(line))]

\* let line = line.trim(); of the line the iterator yields next.
PhLine == trim(Head(ph_lines))

PhLooping == ph_pc = "loop" /\ ph_lines # <<>>

\* if line.is_empty() { continue; }
PhSkipBlank ==
    /\ PhLooping
    /\ PhLine = <<>>
    /\ ph_lines' = Tail(ph_lines)
    /\ UNCHANGED <<ph_str, ph_headers, ph_result, ph_pc>>
    /\ UNCHANGED notHeaders

\* if let Some((key, value)) = line.split_once(':') { headers.insert(key.trim(), value.trim()) }
PhInsert ==
    /\ PhLooping
    /\ PhLine # <<>>
    /\ split_once(PhLine).found
    /\ ph_headers' = MapInsert(ph_headers, trim(split_once(PhLine).key),
                               trim(split_once(PhLine).value))
    /\ ph_lines' = Tail(ph_lines)
    /\ UNCHANGED <<ph_str, ph_result, ph_pc>>
    /\ UNCHANGED notHeaders

\* else { anyhow::bail!("Invalid header format: {}", line); }
PhBail ==
    /\ PhLooping
    /\ PhLine # <<>>
    /\ ~split_once(PhLine).found
    /\ ph_result' = [ok |-> FALSE, error |-> "Invalid header format: ", line |-> PhLine]
    /\ ph_pc' = "done"
    /\ UNCHANGED <<ph_str, ph_lines, ph_headers>>
    /\ UNCHANGED notHeaders

\* Ok(headers)
PhReturn ==
    /\ ph_pc = "loop"
    /\ ph_lines = <<>>
    /\ ph_result' = [ok |-> TRUE, headers |-> ph_headers]
    /\ ph_pc' = "done"
    /\ UNCHANGED <<ph_str, ph_lines, ph_headers>>
    /\ UNCHANGED notHeaders

\* 'a', ':', ' ', "\n", "\r"
HeaderAlphabet == {97, 58, 32, 10, 13}

\* "Content-Type: application/json\nX-Test:  1 \n"   "a:1\r\n\r\n\tb : x:y\r\na:2"
\* "a: 1\n \nbad\nb:2\nworse"
HeaderSamples ==
    { <<67,111,110,116,101,110,116,45,84,121,112,101,58,32,97,112,112,108,105,99,
        97,116,105,111,110,47,106,115,111,110,10,88,45,84,101,115,116,58,32,32,49,32,10>>,
      <<97,58,49,13,10,13,10,9,98,32,58,32,120,58,121,13,10,97,58,50>>,
      <<97,58,32,49,10,32,10,98,97,100,10,98,58,50,10,119,111,114,115,101>> }

HeaderInputs == SeqsUpTo(HeaderAlphabet, MaxHeaderLen) \cup HeaderSamples

NoResult == [ok |-> FALSE, error |-> "none"]

(***************************************************************************)
(* serde_json::from_str::<Value>: a JSON text parsed to a value, or        *)
(* rejected.  A value is a record tagged by t; a number keeps its text.    *)
(***************************************************************************)
JNull == [t |-> "null"]
JBool(b) == [t |-> "bool", b |-> b]
JNum(lex) == [t |-> "num", lex |-> lex]
JStr(str) == [t |-> "str", s |-> str]
JArr(elems) == [t |-> "arr", elems |-> elems]
JObj(map) == [t |-> "obj", map |-> map]

JFail == [ok |-> FALSE]
JOk(v, next) == [ok |-> TRUE, v |-> v, next |-> next]

\* A result reached past an arithmetic overflow of one of the parser's i32
\* counters: the result is the one of a build without overflow checks, where
\* the counter wraps; a build with overflow checks panics instead of
\* returning any result.
Overflowed(r) == "overflow" \in DOMAIN r
MarkOverflow(r) == [x \in DOMAIN r \cup {"overflow"} |-> IF x = "overflow" THEN TRUE ELSE r[x]]
PassOverflow(r, out) == IF Overflowed(r) THEN MarkOverflow(out) ELSE out

\* Whether the build has overflow checks matters to a parse only when one of
\* the parser's counters overflows: with them the call panics there.
Panics(r) == IF Overflowed(r) THEN BOOLEAN ELSE {FALSE}

\* JSON whitespace: space, "\t", "\n", "\r".
IsJsonWs(c) == c \in {32, 9, 10, 13}

\* The first position at or after i that holds no whitespace.
RECURSIVE SkipWs(_, _)
SkipWs(s, i) == IF i <= Len(s) /\ IsJsonWs(s[i]) THEN SkipWs(s, i + 1) ELSE i

\* Whether the text holds word at position i.
HasAt(s, i, word) ==
    i + Len(word) - 1 <= Len(s) /\ SubSeq(s, i, i + Len(word) - 1) = word

\* The first position at or after i that holds no digit.
RECURSIVE SkipDigits(_, _)
SkipDigits(s, i) == IF i <= Len(s) /\ is_ascii_digit(s[i]) THEN SkipDigits(s, i + 1) ELSE i

\* The decimal digits of s from position a up to, not including, position b.
DigitsOf(s, a, b) == [k \in 1..(b - a) |-> s[a + k - 1] - 48]

\* A decimal numeral without its leading zeros; zero is the empty numeral.
RECURSIVE StripZeros(_)
StripZeros(ds) == IF ds # <<>> /\ Head(ds) = 0 THEN StripZeros(Tail(ds)) ELSE ds

\* Whether numeral x (no leading zeros) is at least numeral y (no leading zeros).
RECURSIVE NumeralGeq(_, _)
NumeralGeq(x, y) ==
    IF Len(x) # Len(y) THEN Len(x) > Len(y)
    ELSE IF x = <<>> THEN TRUE
    ELSE IF Head(x) # Head(y) THEN Head(x) > Head(y)
    ELSE NumeralGeq(Tail(x), Tail(y))

\* u64::MAX / 10 and u64::MAX % 10 of serde_json's overflow!(significand * 10 + digit, u64::MAX).
U64MaxDiv10 == <<1,8,4,4,6,7,4,4,0,7,3,7,0,9,5,5,1,6,1>>
U64MaxMod10 == 5

\* overflow!(significand * 10 + digit, u64::MAX)
SignificandOverflow(sig, digit) ==
    /\ NumeralGeq(sig, U64MaxDiv10)
    /\ (sig # U64MaxDiv10 \/ digit > U64MaxMod10)

\* significand * 10 + digit
PushDigit(sig, digit) == IF sig = <<>> /\ digit = 0 THEN <<>> ELSE Append(sig, digit)

I32Max == 2147483647
I32MaxNumeral == <<2,1,4,7,4,8,3,6,4,7>>

\* An i32 counter that was stepped to n in a build without overflow checks:
\* it wraps around.  (A build with overflow checks panics at the step that
\* leaves the i32 range.)
RECURSIVE WrapI32(_)
WrapI32(n) ==
    IF n > I32Max THEN WrapI32(n - I32Max - I32Max - 2)
    ELSE IF n < -I32Max - 1 THEN WrapI32(n + I32Max + I32Max + 2)
    ELSE n

\* parse_integer: the digits before the point go into the u64 significand
\* until the next one would overflow it; from there on (parse_long_integer)
\* every digit only adds one to the i32 exponent.  overflow: that counter
\* left the i32 range.
RECURSIVE IntegerPart(_, _, _)
IntegerPart(ds, k, sig) ==
    IF k > Len(ds) THEN [sig |-> sig, exp |-> 0, overflow |-> FALSE]
    ELSE IF SignificandOverflow(sig, ds[k])
        THEN [sig |-> sig, exp |-> WrapI32(Len(ds) - k + 1),
              overflow |-> Len(ds) - k + 1 > I32Max]
    ELSE IntegerPart(ds, k + 1, PushDigit(sig, ds[k]))

\* parse_decimal: each digit after the point goes into the significand and
\* takes one from the i32 exponent_after_decimal_point (after, 0 at first),
\* until the next one would overflow the significand; the digits from there
\* on are ignored (parse_decimal_overflow).  overflow: that counter left the
\* i32 range.  atLeastOne: the test for a digit after the point, which reads
\* the counter when the digits ended (`if exponent_after_decimal_point == 0`
\* is the error) and is not made on the way to parse_decimal_overflow.
RECURSIVE DecimalPart(_, _, _, _)
DecimalPart(ds, k, sig, after) ==
    IF k > Len(ds)
    THEN [sig |-> sig, exp |-> WrapI32(after), overflow |-> after < -I32Max - 1,
          atLeastOne |-> WrapI32(after) # 0]
    ELSE IF SignificandOverflow(sig, ds[k])
    THEN [sig |-> sig, exp |-> WrapI32(after), overflow |-> after < -I32Max - 1,
          atLeastOne |-> TRUE]
    ELSE DecimalPart(ds, k + 1, PushDigit(sig, ds[k]), after - 1)

\* The value of a numeral.
RECURSIVE NumeralValue(_, _)
NumeralValue(ds, acc) ==
    IF ds = <<>> THEN acc ELSE NumeralValue(Tail(ds), acc * 10 + Head(ds))

\* parse_exponent: overflow!(exp * 10 + digit, i32::MAX) holds at some digit,
\* that is, the written exponent is greater than i32::MAX.
ExponentOverflow(ds) ==
    LET n == StripZeros(ds)
    IN  NumeralGeq(n, I32MaxNumeral) /\ n # I32MaxNumeral

\* parse_exponent: the written exponent as an i32, when it is one.
ExponentValue(ds) == NumeralValue(StripZeros(ds), 0)

\* i32::saturating_add and i32::saturating_sub of an exponent b >= 0.
saturating_add(a, b) == IF a > 0 /\ b > I32Max - a THEN I32Max ELSE a + b
saturating_sub(a, b) ==
    IF a < 0 /\ b >= 1 /\ b - 1 > a + I32Max THEN -I32Max - 1 ELSE a - b

\* POW10 holds the powers of ten up to this one.
MaxPow10 == 308
\* The least exponent at which a u64 significand times POW10[exponent] is infinite.
MinInfinitePow10 == 289

\* For each exponent e from MinInfinitePow10 to MaxPow10, the least u64
\* significand for which `f *= POW10[e]` is infinite in f64 arithmetic,
\* f being `significand as f64`.
LeastInfinite ==
    << <<1,7,9,7,6,9,3,1,3,4,8,6,2,3,1,5,6,2,2,5>>,
       <<1,7,9,7,6,9,3,1,3,4,8,6,2,3,1,5,6,4,9>>,
       <<1,7,9,7,6,9,3,1,3,4,8,6,2,3,1,6,0,0>>,
       <<1,7,9,7,6,9,3,1,3,4,8,6,2,3,1,5,8>>,
       <<1,7,9,7,6,9,3,1,3,4,8,6,2,3,1,6>>,
       <<1,7,9,7,6,9,3,1,3,4,8,6,2,3,2>>,
       <<1,7,9,7,6,9,3,1,3,4,8,6,2,4>>,
       <<1,7,9,7,6,9,3,1,3,4,8,6,3>>,
       <<1,7,9,7,6,9,3,1,3,4,8,7>>,
       <<1,7,9,7,6,9,3,1,3,4,9>>,
       <<1,7,9,7,6,9,3,1,3,5>>,
       <<1,7,9,7,6,9,3,1,4>>,
       <<1,7,9,7,6,9,3,2>>,
       <<1,7,9,7,6,9,4>>,
       <<1,7,9,7,7,0>>,
       <<1,7,9,7,7>>,
       <<1,7,9,8>>,
       <<1,8,0>>,
       <<1,8>>,
       <<2>> >>

\* f64_from_parts gives Err(NumberOutOfRange): the significand is not zero
\* and either the exponent is past POW10, or the product is infinite.
NumberOutOfRange(sig, exp) ==
    /\ sig # <<>>
    /\ \/ exp > MaxPow10
       \/ /\ exp >= MinInfinitePow10
          /\ NumeralGeq(sig, LeastInfinite[exp - MinInfinitePow10 + 1])

\* The extent of the number at i, as serde_json scans it: an optional '-', the
\* integer digits (a single 0, or a nonzero digit and more), the digits of a
\* fraction after '.', an exponent of one or more digits after 'e' or 'E'
\* and an optional sign.
NumberSpan(s, i) ==
    LET a == IF i <= Len(s) /\ s[i] = Minus THEN i + 1 ELSE i
        intEnd == IF a <= Len(s) /\ s[a] = 48 THEN a + 1 ELSE SkipDigits(s, a)
        intOk == intEnd > a /\ ~(s[a] = 48 /\ intEnd <= Len(s) /\ is_ascii_digit(s[intEnd]))
        hasFrac == intEnd <= Len(s) /\ s[intEnd] = Dot
        fracEnd == IF hasFrac THEN SkipDigits(s, intEnd + 1) ELSE intEnd
        hasExp == fracEnd <= Len(s) /\ s[fracEnd] \in {LowerE, UpperE}
        expAt == IF hasExp /\ fracEnd + 1 <= Len(s) /\ s[fracEnd + 1] \in {Plus, Minus}
                 THEN fracEnd + 2 ELSE fracEnd + 1
        expEnd == IF hasExp THEN SkipDigits(s, expAt) ELSE fracEnd
        expOk == ~hasExp \/ expEnd > expAt
    IN  [a |-> a, intEnd |-> intEnd, intOk |-> intOk, hasFrac |-> hasFrac,
         fracEnd |-> fracEnd, hasExp |-> hasExp, expAt |-> expAt,
         expEnd |-> expEnd, expOk |-> expOk,
         positive_exp |-> ~(hasExp /\ s[expAt - 1] = Minus)]

\* exponent_before_decimal_point + exponent_after_decimal_point
AddDecimal(int, frac) ==
    [sig |-> frac.sig, exp |-> WrapI32(int.exp + frac.exp),
     overflow |-> int.overflow \/ frac.overflow, atLeastOne |-> frac.atLeastOne]

\* parse_decimal after parse_integer, int the outcome of the integer digits.
WithDecimal(s, p, int) ==
    IF p.hasFrac
    THEN AddDecimal(int, DecimalPart(DigitsOf(s, p.intEnd + 1, p.fracEnd), 1, int.sig, 0))
    ELSE int

\* The significand and exponent after the integer and fraction digits.
SignificandOf(s, p) == WithDecimal(s, p, IntegerPart(DigitsOf(s, p.a, p.intEnd), 1, <<>>))

\* parse_exponent: the written exponent added to or taken from the counted one.
FinalExponent(dec, p, expDigits) ==
    IF ~p.hasExp THEN dec.exp
    ELSE IF p.positive_exp THEN saturating_add(dec.exp, ExponentValue(expDigits))
    ELSE saturating_sub(dec.exp, ExponentValue(expDigits))

\* parse_exponent_overflow: Err(NumberOutOfRange) unless the significand
\* is zero or the exponent negative; otherwise f64_from_parts decides.
OutOfRange(dec, p, expDigits) ==
    IF p.hasExp /\ ExponentOverflow(expDigits)
    THEN dec.sig # <<>> /\ p.positive_exp
    ELSE NumberOutOfRange(dec.sig, FinalExponent(dec, p, expDigits))

\* out, marked when an i32 counter overflowed.
MarkIf(overflowed, out) == IF overflowed THEN MarkOverflow(out) ELSE out

\* The number of the span p, dec its significand and exponent.
NumberResult(s, i, p, dec) ==
    MarkIf(p.intOk /\ dec.overflow,
           IF p.intOk /\ (~p.hasFrac \/ dec.atLeastOne) /\ p.expOk
                 /\ ~OutOfRange(dec, p, DigitsOf(s, p.expAt, p.expEnd))
           THEN JOk(JNum(SubSeq(s, i, p.expEnd - 1)), p.expEnd)
           ELSE JFail)

NumberFrom(s, i, p) == NumberResult(s, i, p, SignificandOf(s, p))

\* A number at i: -? (0 | [1-9][0-9]*) (. [0-9]+)? ([eE] [+-]? [0-9]+)?
\* whose value, when it is read as an f64, is finite.
ParseNumber(s, i) == NumberFrom(s, i, NumberSpan(s, i))

HexValue(c) ==
    IF c \in 48..57 THEN c - 48
    ELSE IF c \in 97..102 THEN c - 87
    ELSE IF c \in 65..70 THEN c - 55
    ELSE -1

\* The four hex digits at i as a number, -1 when they are not four hex digits.
Hex4(s, i) ==
    IF i + 3 <= Len(s) /\ \A k \in 0..3 : HexValue(s[i + k]) >= 0
    THEN HexValue(s[i]) * 4096 + HexValue(s[i + 1]) * 256
             + HexValue(s[i + 2]) * 16 + HexValue(s[i + 3])
    ELSE -1

\* The character a one-letter escape stands for, -1 for any other letter.
SimpleEscape(e) ==
    IF e = 34 THEN 34 ELSE IF e = 92 THEN 92 ELSE IF e = 47 THEN 47
    ELSE IF e = 98 THEN 8 ELSE IF e = 102 THEN 12 ELSE IF e = 110 THEN 10
    ELSE IF e = 114 THEN 13 ELSE IF e = 116 THEN 9 ELSE -1

\* The rest of a string literal from i (after its opening quote), acc read so far.
RECURSIVE ParseString(_, _, _)
ParseString(s, i, acc) ==
    IF i > Len(s) THEN JFail
    ELSE IF s[i] = Quote THEN JOk(acc, i + 1)
    ELSE IF s[i] < 32 THEN JFail
    ELSE IF s[i] # Backslash THEN ParseString(s, i + 1, Append(acc, s[i]))
    ELSE IF i + 1 > Len(s) THEN JFail
    ELSE IF SimpleEscape(s[i + 1]) >= 0
        THEN ParseString(s, i + 2, Append(acc, SimpleEscape(s[i + 1])))
    ELSE IF s[i + 1] # 117 THEN JFail
    ELSE LET hi == Hex4(s, i + 2)
             lo == IF HasAt(s, i + 6, <<92, 117>>) THEN Hex4(s, i + 8) ELSE -1
         IN  IF hi < 0 THEN JFail
             ELSE IF hi \in 55296..56319
                 THEN IF lo \in 56320..57343
                      THEN ParseString(s, i + 12,
                               Append(acc, 65536 + (hi - 55296) * 1024 + (lo - 56320)))
                      ELSE JFail
             ELSE IF hi \in 56320..57343 THEN JFail
             ELSE ParseString(s, i + 6, Append(acc, hi))

\* serde_json's Deserializer starts with remaining_depth: 128.
RecursionLimit == 128

RECURSIVE ParseValueAt(_, _, _)
RECURSIVE ParseElements(_, _, _, _)
RECURSIVE ParseMembers(_, _, _, _)

\* The elements of an array from i, where a value is due; acc read so far.
ParseElements(s, i, acc, remaining_depth) ==
    LET r == ParseValueAt(s, i, remaining_depth)
        j == IF r.ok THEN SkipWs(s, r.next) ELSE 0
    IN  PassOverflow(r,
            IF ~r.ok \/ j > Len(s) THEN JFail
            ELSE IF s[j] = Comma
                THEN ParseElements(s, SkipWs(s, j + 1), Append(acc, r.v), remaining_depth)
            ELSE IF s[j] = 93 THEN JOk(JArr(Append(acc, r.v)), j + 1)
            ELSE JFail)

\* The members of an object from i, where a key is due; acc read so far.
\* A key met again replaces its earlier value.
ParseMembers(s, i, acc, remaining_depth) ==
    LET k == IF i <= Len(s) /\ s[i] = Quote THEN ParseString(s, i + 1, <<>>) ELSE JFail
        c == IF k.ok THEN SkipWs(s, k.next) ELSE 0
        r == IF k.ok /\ c <= Len(s) /\ s[c] = Colon
             THEN ParseValueAt(s, SkipWs(s, c + 1), remaining_depth) ELSE JFail
        j == IF r.ok THEN SkipWs(s, r.next) ELSE 0
    IN  PassOverflow(r,
            IF ~r.ok \/ j > Len(s) THEN JFail
            ELSE IF s[j] = Comma
                THEN ParseMembers(s, SkipWs(s, j + 1), MapInsert(acc, k.v, r.v), remaining_depth)
            ELSE IF s[j] = 125 THEN JOk(JObj(MapInsert(acc, k.v, r.v)), j + 1)
            ELSE JFail)

\* The value that starts at i (whitespace already skipped), with
\* remaining_depth levels of arrays and objects left.  Entering an array or
\* an object takes one level (check_recursion!); when none is left the parse
\* fails with RecursionLimitExceeded, whatever follows the bracket.
ParseValueAt(s, i, remaining_depth) ==
    IF i > Len(s) THEN JFail
    ELSE IF s[i] = 110 THEN (IF HasAt(s, i, NullWord) THEN JOk(JNull, i + 4) ELSE JFail)
    ELSE IF s[i] = 116 THEN (IF HasAt(s, i, TrueWord) THEN JOk(JBool(TRUE), i + 4) ELSE JFail)
    ELSE IF s[i] = 102 THEN (IF HasAt(s, i, FalseWord) THEN JOk(JBool(FALSE), i + 5) ELSE JFail)
    ELSE IF s[i] = Quote
        THEN LET r == ParseString(s, i + 1, <<>>)
             IN  IF r.ok THEN JOk(JStr(r.v), r.next) ELSE JFail
    ELSE IF s[i] = 91
        THEN LET j == SkipWs(s, i + 1)
             IN  IF remaining_depth - 1 = 0 THEN JFail
                 ELSE IF j <= Len(s) /\ s[j] = 93 THEN JOk(JArr(<<>>), j + 1)
                 ELSE ParseElements(s, j, <<>>, remaining_depth - 1)
    ELSE IF s[i] = 123
        THEN LET j == SkipWs(s, i + 1)
             IN  IF remaining_depth - 1 = 0 THEN JFail
                 ELSE IF j <= Len(s) /\ s[j] = 125 THEN JOk(JObj(<<>>), j + 1)
                 ELSE ParseMembers(s, j, <<>>, remaining_depth - 1)
    ELSE IF s[i] = Minus \/ is_ascii_digit(s[i]) THEN ParseNumber(s, i)
    ELSE JFail

\* The value that starts at i of a whole document.
ParseValue(s, i) == ParseValueAt(s, i, RecursionLimit)

\* de.end(): r the value read, nothing but whitespace after it.
Whole(s, r) ==
    PassOverflow(r,
        IF r.ok /\ SkipWs(s, r.next) > Len(s) THEN [ok |-> TRUE, v |-> r.v] ELSE JFail)

\* serde_json::from_str: one value, whitespace around it, nothing after it.
from_str(s) == Whole(s, ParseValue(s, SkipWs(s, 1)))

(***************************************************************************)
(* utils.rs: json_path_extract.  One action for the parse, one per         *)
(* iteration of the loop over the parts of the path.                       *)
(***************************************************************************)
\* path.split('.'): the texts between the dots, empty ones included.
RECURSIVE split_dot(_)
split_dot(path) ==
    LET at == Find(path, Dot)
    IN  IF at = 0 THEN <<path>>
        ELSE <<SubSeq(path, 1, at - 1)>> \o split_dot(SubSeq(path, at + 1, Len(path)))

\* usize::MAX where usize has 64 bits.
UsizeMax == <<1,8,4,4,6,7,4,4,0,7,3,7,0,9,5,5,1,6,1,5>>

\* A usize as its decimal numeral, the text `{}` prints: no leading zeros, zero is 0.
Usize(ds) ==
    LET n == StripZeros([k \in 1..Len(ds) |-> ds[k] - 48])
    IN  IF n = <<>> THEN <<0>> ELSE n

parse_usize_NoSign(part) ==
    IF /\ part # <<>> /\ \A i \in 1..Len(part) : is_ascii_digit(part[i])
       /\ NumeralGeq(UsizeMax, StripZeros(Usize(part)))
    THEN [ok |-> TRUE, index |-> Usize(part)]
    ELSE [ok |-> FALSE]

\* part.parse::<usize>(): an optional '+', then one or more decimal digits
\* whose value is no greater than usize::MAX (a greater one is Err(PosOverflow)).
parse_usize(part) ==
    LET ds == IF part # <<>> /\ part[1] = Plus THEN Tail(part) ELSE part
    IN  IF /\ ds # <<>> /\ \A i \in 1..Len(ds) : is_ascii_digit(ds[i])
           /\ NumeralGeq(UsizeMax, StripZeros(Usize(ds)))
        THEN [ok |-> TRUE, index |-> Usize(ds)]
        ELSE [ok |-> FALSE]

\* A natural number as its decimal numeral, zero the empty numeral.
RECURSIVE ToNumeral(_)
ToNumeral(n) == IF n = 0 THEN <<>> ELSE Append(ToNumeral(n \div 10), n % 10)

\* index < n
IndexBelow(index, n) == ~NumeralGeq(StripZeros(index), ToNumeral(n))

\* The position of index in an array of n elements, 0 when it has none.
Position(index, n) ==
    IF IndexBelow(index, n) THEN NumeralValue(StripZeros(index), 0) + 1 ELSE 0

\* Value::get(index: usize): Some only for an array that has the index.
HasIndex(v, index) == v.t = "arr" /\ Position(index, Len(v.elems)) > 0
GetIndex(v, index) == v.elems[Position(index, Len(v.elems))]

\* Value::get(key: &str): Some only for an object that has the key.
HasKey(v, key) == v.t = "obj" /\ key \in DOMAIN v.map
GetKey(v, key) == v.map[key]

JpPart == Head(jp_parts)

JpLooping == jp_pc = "loop" /\ jp_parts # <<>>

\* serde_json::from_str(json_str)? fails: the parse error is returned.
JpParseFail ==
    /\ jp_pc = "start"
    /\ ~from_str(jp_json).ok
    /\ \E panic \in Panics(from_str(jp_json)) :
           IF panic
           THEN jp_pc' = "panicked" /\ UNCHANGED jp_result
           ELSE /\ jp_result' = [ok |-> FALSE, error |-> "json"]
                /\ jp_pc' = "done"
    /\ UNCHANGED <<jp_json, jp_path, jp_parts, jp_current>>
    /\ UNCHANGED notPath

\* let value = serde_json::from_str(json_str)?; let parts = path.split('.').collect();
\* let mut current = &value;
JpParse ==
    /\ jp_pc = "start"
    /\ from_str(jp_json).ok
    /\ \E panic \in Panics(from_str(jp_json)) :
           IF panic
           THEN jp_pc' = "panicked" /\ UNCHANGED <<jp_current, jp_parts>>
           ELSE /\ jp_current' = from_str(jp_json).v
                /\ jp_parts' = split_dot(jp_path)
                /\ jp_pc' = "loop"
    /\ UNCHANGED <<jp_json, jp_path, jp_result>>
    /\ UNCHANGED notPath

\* if part.is_empty() { continue; }
JpSkipEmpty ==
    /\ JpLooping
    /\ JpPart = <<>>
    /\ jp_parts' = Tail(jp_parts)
    /\ UNCHANGED <<jp_json, jp_path, jp_current, jp_result, jp_pc>>
    /\ UNCHANGED notPath

\* if let Ok(index) = part.parse::<usize>() { current = current.get(index) ... }
JpIndex ==
    /\ JpLooping
    /\ JpPart # <<>>
    /\ parse_usize(JpPart).ok
    /\ HasIndex(jp_current, parse_usize(JpPart).index)
    /\ jp_current' = GetIndex(jp_current, parse_usize(JpPart).index)
    /\ jp_parts' = Tail(jp_parts)
    /\ UNCHANGED <<jp_json, jp_path, jp_result, jp_pc>>
    /\ UNCHANGED notPath

\* ... .with_context(|| format!("Array index {} not found", index))?
JpIndexMissing ==
    /\ JpLooping
    /\ JpPart # <<>>
    /\ parse_usize(JpPart).ok
    /\ ~HasIndex(jp_current, parse_usize(JpPart).index)
    /\ jp_result' = [ok |-> FALSE, error |-> "Array index {} not found",
                     index |-> parse_usize(JpPart).index]
    /\ jp_pc' = "done"
    /\ UNCHANGED <<jp_json, jp_path, jp_parts, jp_current>>
    /\ UNCHANGED notPath

\* else { current = current.get(part) ... }
JpKey ==
    /\ JpLooping
    /\ JpPart # <<>>
    /\ ~parse_usize(JpPart).ok
    /\ HasKey(jp_current, JpPart)
    /\ jp_current' = GetKey(jp_current, JpPart)
    /\ jp_parts' = Tail(jp_parts)
    /\ UNCHANGED <<jp_json, jp_path, jp_result, jp_pc>>
    /\ UNCHANGED notPath

\* ... .with_context(|| format!("Key '{}' not found", part))?
JpKeyMissing ==
    /\ JpLooping
    /\ JpPart # <<>>
    /\ ~parse_usize(JpPart).ok
    /\ ~HasKey(jp_current, JpPart)
    /\ jp_result' = [ok |-> FALSE, error |-> "Key '{}' not found", key |-> JpPart]
    /\ jp_pc' = "done"
    /\ UNCHANGED <<jp_json, jp_path, jp_parts, jp_current>>
    /\ UNCHANGED notPath

\* Ok(current.clone())
JpReturn ==
    /\ jp_pc = "loop"
    /\ jp_parts = <<>>
    /\ jp_result' = [ok |-> TRUE, value |-> jp_current]
    /\ jp_pc' = "done"
    /\ UNCHANGED <<jp_json, jp_path, jp_parts, jp_current>>
    /\ UNCHANGED notPath

\* {"a":{"b":[10,20,30]}}   [[1,2],{"0":true,"a":null}]
\* {"0":"x","+1":[5],"b":[[0,{"a":-1.5e3}]],"a":{"1":"k","a":[]}}   {not json   "a.b"
\* [1e999]   {"18446744073709551616":[7],"18446744073709551615":8}
JsonDocs ==
    { <<123,34,97,34,58,123,34,98,34,58,91,49,48,44,50,48,44,51,48,93,125,125>>,
      <<91,91,49,44,50,93,44,123,34,48,34,58,116,114,117,101,44,34,97,34,58,110,117,108,108,125,93>>,
      <<123,34,48,34,58,34,120,34,44,34,43,49,34,58,91,53,93,44,34,98,34,58,91,91,48,44,123,34,97,34,58,45,49,46,53,101,51,125,93,93,44,34,97,34,58,123,34,49,34,58,34,107,34,44,34,97,34,58,91,93,125,125>>,
      <<123,110,111,116,32,106,115,111,110>>,
      <<34,97,46,98,34>>,
      <<91,49,101,57,57,57,93>>,
      <<123,34,49,56,52,52,54,55,52,52,48,55,51,55,48,57,53,53,49,54,49,54,34,58,91,55,93,44,34,49,56,52,52,54,55,52,52,48,55,51,55,48,57,53,53,49,54,49,53,34,58,56,125>> }

\* 'a', 'b', '.', '0', '1', '+'
PathAlphabet == {97, 98, 46, 48, 49, 43}

\* a.b.1  a.c  a..b  .a.b  a.b  a.b.3  a.b.01  a.b.+2  b.0.1.a  1.0.a  a.b.-1
\* 18446744073709551615 (usize::MAX)  18446744073709551616  0.4294967296
PathSamples ==
    { <<97,46,98,46,49>>,
      <<97,46,99>>,
      <<97,46,46,98>>,
      <<46,97,46,98>>,
      <<97,46,98>>,
      <<97,46,98,46,51>>,
      <<97,46,98,46,48,49>>,
      <<97,46,98,46,43,50>>,
      <<98,46,48,46,49,46,97>>,
      <<49,46,48,46,97>>,
      <<97,46,98,46,45,49>>,
      <<49,56,52,52,54,55,52,52,48,55,51,55,48,57,53,53,49,54,49,53>>,
      <<49,56,52,52,54,55,52,52,48,55,51,55,48,57,53,53,49,54,49,54>>,
      <<48,46,52,50,57,52,57,54,55,50,57,54>> }

PathInputs == SeqsUpTo(PathAlphabet, MaxPathLen) \cup PathSamples

(***************************************************************************)
(* utils.rs: format_size.  A byte count is written in base 1024, lowest    *)
(* digit first: <<d0, d1, d2, d3, d4>> is d0 + d1*1024 + ... + d4*1024^4.  *)
(* Below 2^53 `bytes as f64` is exact, and so is every division by 1024.0, *)
(* so size is kept exactly: ip the digits of its integer part (lowest      *)
(* first), fp the digits of its fraction (highest first).                  *)
(***************************************************************************)
\* const UNITS: &[&str] = &["B", "KB", "MB", "GB"];
UNITS == <<<<66>>, <<75,66>>, <<77,66>>, <<71,66>>>>

\* bytes as f64
AsF64(digits) == [ip |-> digits, fp |-> <<>>]

\* size >= 1024.0
AtLeast1024(size) == \E i \in 2..Len(size.ip) : size.ip[i] # 0

LoopTest_NoLastUnit(size, unit) == AtLeast1024(size)

\* while size >= 1024.0 && unit_index < UNITS.len() - 1
LoopTest(size, unit) == AtLeast1024(size) /\ unit < Len(UNITS) - 1

\* size /= 1024.0
DivideBy1024(size) ==
    [ip |-> Tail(size.ip) \o <<0>>, fp |-> <<Head(size.ip)>> \o size.fp]

\* The integer a digit sequence writes (small enough here to be computed).
RECURSIVE DigitsToInt(_)
DigitsToInt(ip) == IF ip = <<>> THEN 0 ELSE Head(ip) + 1024 * DigitsToInt(Tail(ip))

\* The decimal text of a natural number.
RECURSIVE Decimal(_)
Decimal(n) == IF n < 10 THEN <<48 + n>> ELSE Decimal(n \div 10) \o <<48 + (n % 10)>>

\* 100 times a fraction: [whole |-> the integer part, rest |-> the digits of
\* what is left], by long multiplication from the lowest digit up.
RECURSIVE TimesHundred(_)
TimesHundred(fp) ==
    IF fp = <<>> THEN [whole |-> 0, rest |-> <<>>]
    ELSE LET low == TimesHundred(Tail(fp))
             t == Head(fp) * 100 + low.whole
         IN  [whole |-> t \div 1024, rest |-> <<t % 1024>> \o low.rest]

\* How a fraction given by its digits compares with one half: 1, 0 or -1.
CompareHalf(rest) ==
    IF rest = <<>> \/ rest[1] < 512 THEN -1
    ELSE IF rest[1] > 512 \/ \E j \in 2..Len(rest) : rest[j] # 0 THEN 1
    ELSE 0

\* format!("{:.2}", size): the exact value rounded to hundredths, a tie to
\* the even hundredth; [int |-> the integer part, cents |-> the two decimals].
RoundHundredths(size) ==
    LET h == TimesHundred(size.fp)
        c == CompareHalf(h.rest)
        up == c > 0 \/ (c = 0 /\ h.whole % 2 = 1)
        cents == IF up THEN h.whole + 1 ELSE h.whole
        int == DigitsToInt(size.ip)
    IN  IF cents = 100 THEN [int |-> int + 1, cents |-> 0]
        ELSE [int |-> int, cents |-> cents]

\* format!("{} {}", bytes, UNITS[unit_index])
FormatBytes(digits, unit) == Decimal(DigitsToInt(digits)) \o <<32>> \o UNITS[unit + 1]

\* format!("{:.2} {}", size, UNITS[unit_index])
FormatScaled(size, unit) ==
    LET r == RoundHundredths(size)
    IN  Decimal(r.int) \o <<Dot>> \o <<48 + (r.cents \div 10), 48 + (r.cents % 10)>>
            \o <<32>> \o UNITS[unit + 1]

\* The loop body: size /= 1024.0; unit_index += 1;
FsDivide ==
    /\ fs_pc = "loop"
    /\ LoopTest(fs_size, unit_index)
    /\ fs_size' = DivideBy1024(fs_size)
    /\ unit_index' = unit_index + 1
    /\ fs_divisions' = fs_divisions + 1
    /\ UNCHANGED <<fs_bytes, fs_result, fs_pc>>
    /\ UNCHANGED notSize

\* if unit_index == 0 { format!("{} {}", bytes, UNITS[unit_index]) }
FsReturnBytes ==
    /\ fs_pc = "loop"
    /\ ~LoopTest(fs_size, unit_index)
    /\ unit_index = 0
    /\ fs_result' = FormatBytes(fs_bytes, unit_index)
    /\ fs_pc' = "done"
    /\ UNCHANGED <<fs_bytes, fs_size, unit_index, fs_divisions>>
    /\ UNCHANGED notSize

\* else { format!("{:.2} {}", size, UNITS[unit_index]) }
FsReturnScaled ==
    /\ fs_pc = "loop"
    /\ ~LoopTest(fs_size, unit_index)
    /\ unit_index # 0
    /\ fs_result' = FormatScaled(fs_size, unit_index)
    /\ fs_pc' = "done"
    /\ UNCHANGED <<fs_bytes, fs_size, unit_index, fs_divisions>>
    /\ UNCHANGED notSize

\* The base-1024 digits byte counts are drawn from: counts from 0 to 1024^5 - 1.
SizeDigits == {0, 1, 128, 512, 1023}
SizeInputs == [1..5 -> SizeDigits]

(***************************************************************************)
(* client.rs: HttpClient.  A call runs up to its first await               *)
(* (request.send()), the transport answers, process_response runs up to    *)
(* response.text().await, and the body read answers.  The transport        *)
(* (reqwest) is the environment: it chooses the outcomes.                  *)
(***************************************************************************)
None == [none |-> TRUE]

ContentTypeName == <<99,111,110,116,101,110,116,45,116,121,112,101>>   \* "content-type"
TextPlain == <<116,101,120,116,47,112,108,97,105,110>>           \* "text/plain"

SendContext_NoUrl(method, url) == <<"Failed to send ", method, " request to ">>

\* format!("Failed to send {} request to {}", url), with the verb of the method.
SendContext(method, url) == <<"Failed to send ", method, " request to ", url>>

\* anyhow's with_context: the context message over the error it wraps.
Err(context, source) == [ok |-> FALSE, context |-> context, source |-> source]

PayloadOk_Unchecked(data) == TRUE

\* serde_json::from_str(data) is Ok
PayloadOk(data) == from_str(data).ok

\* self.client.<verb>(url) [.json(&json_value)], then request.header(key, value)
\* for every header of the configuration.
BuildRequest(method, url, body, config) ==
    [method |-> method, url |-> url, json |-> body, headers |-> config.headers]

\* A call up to its first suspension: get and delete build and send; post and
\* put first parse the body and return the error when it is no JSON (or
\* panic inside the parser, in a build with overflow checks).
Dispatch(method, url, data, config) ==
    /\ hc_pc = "idle"
    /\ call' = [method |-> method, url |-> url, data |-> data, config |-> config]
    /\ \E panic \in (IF method \in {"POST", "PUT"} THEN Panics(from_str(data)) ELSE {FALSE}) :
       IF panic
       THEN /\ hc_pc' = "panicked"
            /\ UNCHANGED <<hc_result, request, send_count>>
       ELSE IF method \in {"POST", "PUT"} /\ ~PayloadOk(data)
       THEN /\ hc_result' = Err(<<"Invalid JSON data provided">>, "serde_json")
            /\ hc_pc' = "done"
            /\ UNCHANGED <<request, send_count>>
       ELSE /\ request' = BuildRequest(method, url,
                              IF method \in {"POST", "PUT"} THEN from_str(data) ELSE None,
                              config)
            /\ send_count' = send_count + 1
            /\ hc_pc' = "sending"
            /\ UNCHANGED hc_result
    /\ UNCHANGED <<send_outcome, partial, read_count>>
    /\ UNCHANGED notClient

\* '{', '}', '1', '"'
BodyAlphabet == {123, 125, 49, 34}

\* {not json   {"a":1}   [1, {"b":null}]   {"a":1,}   {"a":1e999}   1e308
BodySamples == { <<123,110,111,116,32,106,115,111,110>>, <<123,34,97,34,58,49,125>>, <<91,49,44,32,123,34,98,34,58,110,117,108,108,125,93>>, <<123,34,97,34,58,49,44,125>>,
                 <<123,34,97,34,58,49,101,57,57,57,125>>, <<49,101,51,48,56>> }

Bodies == SeqsUpTo(BodyAlphabet, MaxBodyLen) \cup BodySamples
NoBody == <<>>
Urls == {"https://a.example/x", "http://b.example/y"}
Configs == {new, with_basic_auth(new, <<97>>, <<98>>)}

get == \E url \in Urls, config \in Configs : Dispatch("GET", url, NoBody, config)

post == \E url \in Urls, data \in Bodies, config \in Configs : Dispatch("POST", url, data, config)

put == \E url \in Urls, data \in Bodies, config \in Configs : Dispatch("PUT", url, data, config)

delete == \E url \in Urls, config \in Configs : Dispatch("DELETE", url, NoBody, config)

\* send().await is an Err: .with_context(..)? returns it with the context on top.
SendFails ==
    /\ hc_pc = "sending"
    /\ \E cause \in {"connect", "timeout"} :
           /\ send_outcome' = [ok |-> FALSE, cause |-> cause]
           /\ hc_result' = Err(SendContext(call.method, call.url), cause)
    /\ hc_pc' = "done"
    /\ UNCHANGED <<call, request, send_count, partial, read_count>>
    /\ UNCHANGED notClient

\* HeaderValue::to_str: Ok only when every byte is a tab or visible ASCII.
ToStrOk(value) == \A i \in 1..Len(value) : value[i] = 9 \/ (value[i] >= 32 /\ value[i] < 127)

\* StatusCode::canonical_reason(): the reason phrase of each registered status.
CanonicalReasons ==
    (100 :> "Continue") @@
    (101 :> "Switching Protocols") @@
    (102 :> "Processing") @@
    (103 :> "Early Hints") @@
    (200 :> "OK") @@
    (201 :> "Created") @@
    (202 :> "Accepted") @@
    (203 :> "Non Authoritative Information") @@
    (204 :> "No Content") @@
    (205 :> "Reset Content") @@
    (206 :> "Partial Content") @@
    (207 :> "Multi-Status") @@
    (208 :> "Already Reported") @@
    (226 :> "IM Used") @@
    (300 :> "Multiple Choices") @@
    (301 :> "Moved Permanently") @@
    (302 :> "Found") @@
    (303 :> "See Other") @@
    (304 :> "Not Modified") @@
    (305 :> "Use Proxy") @@
    (307 :> "Temporary Redirect") @@
    (308 :> "Permanent Redirect") @@
    (400 :> "Bad Request") @@
    (401 :> "Unauthorized") @@
    (402 :> "Payment Required") @@
    (403 :> "Forbidden") @@
    (404 :> "Not Found") @@
    (405 :> "Method Not Allowed") @@
    (406 :> "Not Acceptable") @@
    (407 :> "Proxy Authentication Required") @@
    (408 :> "Request Timeout") @@
    (409 :> "Conflict") @@
    (410 :> "Gone") @@
    (411 :> "Length Required") @@
    (412 :> "Precondition Failed") @@
    (413 :> "Payload Too Large") @@
    (414 :> "URI Too Long") @@
    (415 :> "Unsupported Media Type") @@
    (416 :> "Range Not Satisfiable") @@
    (417 :> "Expectation Failed") @@
    (418 :> "I'm a teapot") @@
    (421 :> "Misdirected Request") @@
    (422 :> "Unprocessable Entity") @@
    (423 :> "Locked") @@
    (424 :> "Failed Dependency") @@
    (425 :> "Too Early") @@
    (426 :> "Upgrade Required") @@
    (428 :> "Precondition Required") @@
    (429 :> "Too Many Requests") @@
    (431 :> "Request Header Fields Too Large") @@
    (451 :> "Unavailable For Legal Reasons") @@
    (500 :> "Internal Server Error") @@
    (501 :> "Not Implemented") @@
    (502 :> "Bad Gateway") @@
    (503 :> "Service Unavailable") @@
    (504 :> "Gateway Timeout") @@
    (505 :> "HTTP Version Not Supported") @@
    (506 :> "Variant Also Negotiates") @@
    (507 :> "Insufficient Storage") @@
    (508 :> "Loop Detected") @@
    (510 :> "Not Extended") @@
    (511 :> "Network Authentication Required")

\* StatusCode::canonical_reason().unwrap_or("Unknown")
StatusText(status) ==
    IF status \in DOMAIN CanonicalReasons THEN CanonicalReasons[status] ELSE "Unknown"

\* for (key, value) in response.headers() { if let Ok(value_str) = value.to_str()
\* { headers.insert(key.to_string(), value_str.to_string()); } }
\* The header map yields one pair per value, a name with several values several times.
RECURSIVE CollectHeaders(_, _)
CollectHeaders(pairs, acc) ==
    IF pairs = <<>> THEN acc
    ELSE CollectHeaders(Tail(pairs),
             IF ToStrOk(Head(pairs).value)
             THEN MapInsert(acc, Head(pairs).name, Head(pairs).value)
             ELSE acc)

\* HeaderMap::get(name): the first value stored under the name, if any.
HeaderGet(pairs, name) ==
    LET at == {i \in 1..Len(pairs) : pairs[i].name = name}
    IN  IF at = {} THEN None
        ELSE [none |-> FALSE, value |-> pairs[CHOOSE i \in at : \A k \in at : i <= k].value]

\* response.headers().get("content-type").and_then(|ct| ct.to_str().ok())
\*     .unwrap_or("text/plain").to_string()
ContentTypeOf(pairs) ==
    LET ct == HeaderGet(pairs, ContentTypeName)
    IN  IF ~ct.none /\ ToStrOk(ct.value) THEN ct.value ELSE TextPlain

\* process_response up to response.text().await
BeforeBody(resp) ==
    [status |-> resp.status,
     status_text |-> StatusText(resp.status),
     headers |-> CollectHeaders(resp.headers, <<>>),
     content_type |-> ContentTypeOf(resp.headers)]

\* The headers a response may carry, as (name, value bytes) pairs in the order
\* the header map yields them: application/json, text/html, a byte that is no
\* text, under content-type and x-a.
JsonType == <<97,112,112,108,105,99,97,116,105,111,110,47,106,115,111,110>>
HtmlType == <<116,101,120,116,47,104,116,109,108>>
NotText == <<255, 254>>
XaName == <<120, 45, 97>>
HeaderPairs ==
    { [name |-> ContentTypeName, value |-> JsonType],
      [name |-> ContentTypeName, value |-> HtmlType],
      [name |-> ContentTypeName, value |-> NotText],
      [name |-> XaName, value |-> <<49>>],
      [name |-> XaName, value |-> NotText] }

Responses ==
    [status : {200, 599}, headers : SeqsUpTo(HeaderPairs, MaxRespHeaders)]

\* send().await is Ok(response): process_response takes the status, the
\* headers and the content type, then awaits response.text().
SendOk ==
    /\ hc_pc = "sending"
    /\ \E resp \in Responses :
           /\ send_outcome' = [ok |-> TRUE, response |-> resp]
           /\ partial' = BeforeBody(resp)
    /\ read_count' = read_count + 1
    /\ hc_pc' = "reading"
    /\ UNCHANGED <<call, request, send_count, hc_result>>
    /\ UNCHANGED notClient

\* response.text().await is an Err: .with_context(|| "Failed to read response body")?
BodyFails ==
    /\ hc_pc = "reading"
    /\ hc_result' = Err(<<"Failed to read response body">>, "body")
    /\ hc_pc' = "done"
    /\ UNCHANGED <<call, request, send_count, send_outcome, partial, read_count>>
    /\ UNCHANGED notClient

\* response.text().await is Ok(body): Ok(ApiResponse { .. }) with the time elapsed.
BodyOk ==
    /\ hc_pc = "reading"
    /\ \E body \in {"", "{\"id\": 1}"}, elapsed \in {0, 12} :
           hc_result' =
               [ok |-> TRUE,
                response |-> [status |-> partial.status,
                              status_text |-> partial.status_text,
                              headers |-> partial.headers,
                              body |-> body,
                              content_type |-> partial.content_type,
                              response_time_ms |-> elapsed]]
    /\ hc_pc' = "done"
    /\ UNCHANGED <<call, request, send_count, send_outcome, partial, read_count>>
    /\ UNCHANGED notClient

(***************************************************************************)
(* Specifications, one per component.                                      *)
(***************************************************************************)
\* The state in which the operation under study has just been called (the
\* component c) and nothing else of the program is in use: a fresh
\* RequestConfig ("builder"), with a direct call of base64_encode ("models"),
\* colorize_json ("color"), parse_headers_string ("headers"),
\* json_path_extract ("path"), format_size ("size"), HttpClient::new()
\* ("client").
InitFor(c) ==
    /\ cfg = new
    /\ credentials = <<>>
    /\ b64_called = FALSE
    /\ b64_input \in (IF c = "models" THEN B64Inputs ELSE {<<>>})
    /\ b64_output = <<>>
    /\ last_call = NoCall
    /\ cj_json \in (IF c = "color" THEN ColorInputs ELSE {<<>>})
    /\ cj_pos = 1
    /\ in_string = FALSE
    /\ escaped = FALSE
    /\ result = <<>>
    /\ cj_last = NoStep
    /\ cj_pc = (IF c = "color" THEN "scan" ELSE "idle")
    /\ ph_str \in (IF c = "headers" THEN HeaderInputs ELSE {<<>>})
    /\ ph_lines = (IF c = "headers" THEN lines(ph_str) ELSE <<>>)
    /\ ph_headers = <<>>
    /\ ph_result = NoResult
    /\ ph_pc = (IF c = "headers" THEN "loop" ELSE "idle")
    /\ jp_json \in (IF c = "path" THEN JsonDocs ELSE {<<>>})
    /\ jp_path \in (IF c = "path" THEN PathInputs ELSE {<<>>})
    /\ jp_parts = <<>>
    /\ jp_current = JNull
    /\ jp_result = NoResult
    /\ jp_pc = (IF c = "path" THEN "start" ELSE "idle")
    /\ fs_bytes \in (IF c = "size" THEN SizeInputs ELSE {<<0>>})
    /\ fs_size = AsF64(fs_bytes)
    /\ unit_index = 0
    /\ fs_divisions = 0
    /\ fs_result = <<>>
    /\ fs_pc = (IF c = "size" THEN "loop" ELSE "idle")
    /\ call = None
    /\ request = None
    /\ send_count = 0
    /\ send_outcome = None
    /\ partial = None
    /\ read_count = 0
    /\ hc_result = None
    /\ hc_pc = (IF c = "client" THEN "idle" ELSE "off")

NextModels == Base64Encode \/ WithBasicAuth

NextBuilder ==
    \/ WithHeaders \/ WithPrettyPrint \/ WithRedirects \/ WithSslVerification
    \/ AddHeader \/ WithBearerToken \/ WithBasicAuth

SpecBuilder == InitFor("builder") /\ [][NextBuilder]_vars

SpecModels == InitFor("models") /\ [][NextModels]_vars

NextColor ==
    \/ CjQuote \/ CjBackslash \/ CjInString \/ CjColon \/ CjBracket
    \/ CjComma \/ CjNumber \/ CjWord \/ CjOther \/ CjReturn

SpecColor == InitFor("color") /\ [][NextColor]_vars

NextHeaders == PhSkipBlank \/ PhInsert \/ PhBail \/ PhReturn

SpecHeaders == InitFor("headers") /\ [][NextHeaders]_vars

NextPath ==
    \/ JpParseFail \/ JpParse \/ JpSkipEmpty \/ JpIndex \/ JpIndexMissing
    \/ JpKey \/ JpKeyMissing \/ JpReturn

SpecPath == InitFor("path") /\ [][NextPath]_vars

NextClient == get \/ post \/ put \/ delete \/ SendFails \/ SendOk \/ BodyFails \/ BodyOk

SpecClient == InitFor("client") /\ [][NextClient]_vars

NextSize == FsDivide \/ FsReturnBytes \/ FsReturnScaled

SpecSize == InitFor("size") /\ [][NextSize]_vars

(***************************************************************************)
(* A standard RFC 4648 base64 decoder, written from the RFC and not from   *)
(* the encoder's table: the reference the encoder is checked against.      *)
(***************************************************************************)
\* The value of a base64 digit, -1 for any other character.
Rfc4648Value(c) ==
    IF c \in 65..90 THEN c - 65
    ELSE IF c \in 97..122 THEN c - 71
    ELSE IF c \in 48..57 THEN c + 4
    ELSE IF c = 43 THEN 62
    ELSE IF c = 47 THEN 63
    ELSE -1

IsRfc4648Digit(c) == Rfc4648Value(c) >= 0

\* Four characters are a full group, or a final group with one or two '='
\* whose unused low bits are zero.
Rfc4648GroupOk(q, last) ==
    /\ IsRfc4648Digit(q[1])
    /\ IsRfc4648Digit(q[2])
    /\ \/ IsRfc4648Digit(q[3]) /\ IsRfc4648Digit(q[4])
       \/ last /\ IsRfc4648Digit(q[3]) /\ q[4] = 61 /\ Rfc4648Value(q[3]) % 4 = 0
       \/ last /\ q[3] = 61 /\ q[4] = 61 /\ Rfc4648Value(q[2]) % 16 = 0

Rfc4648Accepts(text) ==
    /\ Len(text) % 4 = 0
    /\ \A g \in 1..(Len(text) \div 4) :
           Rfc4648GroupOk(SubSeq(text, 4 * g - 3, 4 * g), 4 * g = Len(text))

Rfc4648GroupBytes(q) ==
    LET v1 == Rfc4648Value(q[1])
        v2 == Rfc4648Value(q[2])
        v3 == Rfc4648Value(q[3])
        v4 == Rfc4648Value(q[4])
        b1 == v1 * 4 + (v2 \div 16)
        b2 == (v2 % 16) * 16 + (v3 \div 4)
        b3 == (v3 % 4) * 64 + v4
    IN  IF q[3] = 61 THEN <<b1>>
        ELSE IF q[4] = 61 THEN <<b1, b2>>
        ELSE <<b1, b2, b3>>

Rfc4648Decode(text) ==
    Concat([g \in 1..(Len(text) \div 4) |->
                Rfc4648GroupBytes(SubSeq(text, 4 * g - 3, 4 * g))])

\* The text after a prefix, or <<-1>> when the text does not start with it.
AfterPrefix(text, prefix) ==
    IF Len(text) >= Len(prefix) /\ SubSeq(text, 1, Len(prefix)) = prefix
    THEN SubSeq(text, Len(prefix) + 1, Len(text))
    ELSE <<-1>>

\* C2: a standard RFC 4648 decoder accepts whatever base64_encode returns and
\* decodes it to exactly the bytes of the input; and the Authorization header
\* that with_basic_auth stores is "Basic " followed by a text that decodes to
\* exactly the bytes of "<username>:<password>".
C2_Base64RoundTrip ==
    /\ b64_called =>
           /\ Rfc4648Accepts(b64_output)
           /\ Rfc4648Decode(b64_output) = as_bytes(b64_input)
    /\ AuthorizationKey \in DOMAIN cfg.headers =>
           LET token == AfterPrefix(cfg.headers[AuthorizationKey], BasicPrefix)
           IN  /\ Rfc4648Accepts(token)
               /\ Rfc4648Decode(token) = as_bytes(credentials)

\* C2's case: a four-character input with a three-byte character has been
\* encoded, and basic auth was set from a non-ASCII user name and password.
C2_Witness ==
    /\ b64_called
    /\ b64_input = <<97, 8364, 233, 0>>
    /\ AuthorizationKey \in DOMAIN cfg.headers
    /\ credentials = <<233, 58, 58, 112, 8364>>

\* The number of '=' characters the text ends in.
TrailingPads(text) ==
    Cardinality({k \in 1..Len(text) : \A j \in k..Len(text) : text[j] = 61})

\* C3: for an input of n bytes base64_encode returns exactly 4 * ceil(n/3)
\* characters (none for n = 0), ending in exactly (3 - n mod 3) mod 3 '='
\* characters, and every character before those is one of the 64 digits.
C3_Base64Shape ==
    b64_called =>
        LET n == Len(as_bytes(b64_input))
            pads == (3 - (n % 3)) % 3
        IN  /\ Len(b64_output) = 4 * ((n + 2) \div 3)
            /\ (n = 0) => (b64_output = <<>>)
            /\ TrailingPads(b64_output) = pads
            /\ \A i \in 1..(Len(b64_output) - pads) : IsRfc4648Digit(b64_output[i])

\* C3's case: an input of 4 bytes (n mod 3 = 1) was encoded to 8 characters.
C3_Witness ==
    /\ b64_called
    /\ Len(as_bytes(b64_input)) = 4
    /\ Len(b64_output) = 8
    /\ b64_output[7] = 61

(***************************************************************************)
(* Removing the styling codes: every ESC [ <digits and ';'> m is dropped,  *)
(* every other character is kept.                                          *)
(***************************************************************************)
\* The index of the 'm' that ends the styling code starting at s[1], 0 if none does.
RECURSIVE SgrScan(_, _)
SgrScan(s, j) ==
    IF j > Len(s) THEN 0
    ELSE IF s[j] \in 48..57 \/ s[j] = 59 THEN SgrScan(s, j + 1)
    ELSE IF s[j] = 109 THEN j
    ELSE 0

SgrEnd(s) == IF Len(s) >= 3 /\ s[1] = 27 /\ s[2] = 91 THEN SgrScan(s, 3) ELSE 0

RECURSIVE StripStyling(_)
StripStyling(s) ==
    IF s = <<>> THEN <<>>
    ELSE IF SgrEnd(s) > 0 THEN StripStyling(SubSeq(s, SgrEnd(s) + 1, Len(s)))
    ELSE <<Head(s)>> \o StripStyling(Tail(s))

\* C4: colorize_json only adds styling: at every point of the scan the output
\* with its styling codes removed is exactly the input read so far, so the
\* returned text stripped is the whole input; and the scan never gets stuck
\* (every input is scanned to its end and a result is returned).
C4_ColorizePreservesText ==
    /\ cj_pc \in {"scan", "done"} =>
           StripStyling(result) = SubSeq(cj_json, 1, cj_pos - 1)
    /\ cj_pc = "done" => StripStyling(result) = cj_json
    /\ cj_pc = "scan" => ENABLED NextColor

\* C4's case: "\\\"x":-1.5e+3 has been colorized to the end, with a string
\* holding an escaped quote and a greedily consumed number token.
C4_Witness ==
    /\ cj_pc = "done"
    /\ cj_json = <<34,92,92,92,34,120,34,58,45,49,46,53,101,43,51>>
    /\ cj_last.arm = "number"
    /\ cj_last.last - cj_last.pos = 6
    /\ Len(result) > Len(cj_json)

\* The number of consecutive backslashes right before position pos of the input.
BackslashRun(pos) ==
    Cardinality({k \in 1..(pos - 1) : \A j \in k..(pos - 1) : cj_json[j] = 92})

\* C10: in the scan, a '"' toggles in_string exactly when it is outside a
\* string or has an even number of consecutive backslashes before it, and no
\* other character changes in_string; an escaped quote is pushed as a green
\* string character and leaves in_string on; escaped is only true inside a
\* string; and every character read while in_string holds is read alone and
\* pushed as a green string character.
C10_StringModeScan ==
    /\ escaped => in_string
    /\ cj_last.arm # "none" =>
        /\ (cj_last.ch = 34) =>
               ((in_string # cj_last.in_string)
                    <=> (~cj_last.in_string \/ BackslashRun(cj_last.pos) % 2 = 0))
        /\ (cj_last.ch # 34) => (in_string = cj_last.in_string)
        /\ (cj_last.ch = 34 /\ cj_last.in_string /\ BackslashRun(cj_last.pos) % 2 = 1) =>
               /\ in_string
               /\ cj_last.class = "string"
               /\ cj_last.out = <<27, 91, 51, 50, 109, 34, 27, 91, 48, 109>>
        /\ cj_last.in_string =>
               /\ cj_last.last = cj_last.pos
               /\ cj_last.class = "string"
               /\ cj_last.out = <<27, 91, 51, 50, 109, cj_last.ch, 27, 91, 48, 109>>

\* C10's case: inside a string, a quote preceded by three backslashes has
\* just been read, and the scan is still inside the string.
C10_Witness ==
    /\ cj_last.ch = 34
    /\ cj_last.in_string
    /\ BackslashRun(cj_last.pos) = 3
    /\ in_string
    /\ ~escaped

(***************************************************************************)
(* What parse_headers_string is to return, stated on the positions of the  *)
(* input text rather than by the loop.                                     *)
(***************************************************************************)
\* The positions where a line starts: 1 and the position after each "\n".
LineStarts(s) == {1} \cup {i + 1 : i \in {j \in 1..Len(s) : s[j] = 10}}

\* The line that starts at a, up to the next "\n" or the end of the text.
RawLine(s, a) ==
    LET ends == {j \in a..Len(s) : s[j] = 10}
        e == IF ends = {} THEN Len(s) ELSE (CHOOSE j \in ends : \A k \in ends : j <= k) - 1
    IN  SubSeq(s, a, e)

IsSpace(c) == c \in {9, 10, 11, 12, 13, 32, 133, 160}

\* A text from its first to its last non-space character.
Trimmed(t) ==
    LET ink == {i \in 1..Len(t) : ~IsSpace(t[i])}
    IN  IF ink = {} THEN <<>>
        ELSE SubSeq(t, CHOOSE i \in ink : \A k \in ink : i <= k,
                       CHOOSE i \in ink : \A k \in ink : k <= i)

LineAt(s, a) == Trimmed(RawLine(s, a))

Colons(t) == {i \in 1..Len(t) : t[i] = 58}
FirstColon(t) == CHOOSE i \in Colons(t) : \A k \in Colons(t) : i <= k
KeyOf(t) == Trimmed(SubSeq(t, 1, FirstColon(t) - 1))
ValueOf(t) == Trimmed(SubSeq(t, FirstColon(t) + 1, Len(t)))

\* The starts of the non-blank lines, and of those with no ':'.
HeaderLines(s) == {a \in LineStarts(s) : LineAt(s, a) # <<>>}
BadLines(s) == {a \in HeaderLines(s) : Colons(LineAt(s, a)) = {}}

\* The mapping of a text whose non-blank lines all hold a ':': each key
\* with the value of the last line that has it.
ExpectedHeaders(s) ==
    [k \in {KeyOf(LineAt(s, a)) : a \in HeaderLines(s)} |->
        LET mine == {a \in HeaderLines(s) : KeyOf(LineAt(s, a)) = k}
        IN  ValueOf(LineAt(s, CHOOSE a \in mine : \A b \in mine : b <= a))]

\* C7: parse_headers_string trims each line and skips the blank ones; when
\* every other line holds a ':' it returns the mapping of trimmed key (before
\* the first ':') to trimmed value (everything after it, later colons
\* included); when some non-blank line holds no ':' it fails, naming the first
\* such line, and returns no mapping.  The example text gives exactly
\* {"Content-Type": "application/json", "X-Test": "1"}.
C7_ParseHeaders ==
    ph_pc = "done" =>
        /\ BadLines(ph_str) = {} =>
               /\ ph_result.ok
               /\ ph_result.headers = ExpectedHeaders(ph_str)
        /\ BadLines(ph_str) # {} =>
               /\ ~ph_result.ok
               /\ DOMAIN ph_result = {"ok", "error", "line"}
               /\ ph_result.error = "Invalid header format: "
               /\ ph_result.line =
                      LineAt(ph_str, CHOOSE a \in BadLines(ph_str) :
                                         \A b \in BadLines(ph_str) : a <= b)
        /\ ph_str = <<67,111,110,116,101,110,116,45,84,121,112,101,58,32,97,112,112,
                      108,105,99,97,116,105,111,110,47,106,115,111,110,10,88,45,84,
                      101,115,116,58,32,32,49,32,10>> =>
               /\ ph_result.ok
               /\ DOMAIN ph_result.headers =
                      {<<67,111,110,116,101,110,116,45,84,121,112,101>>, <<88,45,84,101,115,116>>}
               /\ ph_result.headers[<<67,111,110,116,101,110,116,45,84,121,112,101>>] =
                      <<97,112,112,108,105,99,97,116,105,111,110,47,106,115,111,110>>
               /\ ph_result.headers[<<88,45,84,101,115,116>>] = <<49>>

\* C7's case: "a:1\r\n\r\n\tb : x:y\r\na:2" was parsed to the end: a blank line
\* skipped, a value with a second colon, and a key written twice.
C7_Witness ==
    /\ ph_pc = "done"
    /\ ph_str = <<97,58,49,13,10,13,10,9,98,32,58,32,120,58,121,13,10,97,58,50>>
    /\ ph_result.ok
    /\ ph_result.headers[<<98>>] = <<120, 58, 121>>
    /\ ph_result.headers[<<97>>] = <<50>>

(***************************************************************************)
(* What json_path_extract is to return, stated on the non-empty segments   *)
(* of the path and the parsed document.                                    *)
(***************************************************************************)
\* The positions where a non-empty segment starts: a non-dot at the start
\* of the path or right after a dot.
SegmentStarts(path) ==
    {i \in 1..Len(path) : path[i] # 46 /\ (i = 1 \/ path[i - 1] = 46)}

\* The segment that starts at a, up to the next dot or the end of the path.
SegmentAt(path, a) ==
    LET dots == {j \in a..Len(path) : path[j] = 46}
        e == IF dots = {} THEN Len(path) ELSE (CHOOSE j \in dots : \A k \in dots : j <= k) - 1
    IN  SubSeq(path, a, e)

\* The non-empty segments of the path, in order.
Segments(path) ==
    LET S == SegmentStarts(path)
        nth(k) == CHOOSE a \in S : Cardinality({b \in S : b < a}) = k - 1
    IN  [k \in 1..Cardinality(S) |-> SegmentAt(path, nth(k))]

\* A segment that parses as a non-negative integer: decimal digits, which
\* Rust's integer parser also takes with a leading '+', of a value that a
\* 64-bit unsigned integer holds.
UnsignedDigits(seg) == IF seg # <<>> /\ seg[1] = 43 THEN Tail(seg) ELSE seg

\* The digit values of the text from its first non-zero digit on.
Significant(ds) ==
    LET nz == {i \in 1..Len(ds) : ds[i] # 48}
    IN  IF nz = {} THEN <<>>
        ELSE LET f == CHOOSE i \in nz : \A k \in nz : i <= k
             IN  [k \in 1..(Len(ds) - f + 1) |-> ds[f + k - 1] - 48]

\* 2^64 - 1
Max64 == <<1,8,4,4,6,7,4,4,0,7,3,7,0,9,5,5,1,6,1,5>>

\* Whether numeral x is at most numeral y of the same length.
SameLengthLeq(x, y) ==
    \/ x = y
    \/ \E i \in 1..Len(x) : x[i] < y[i] /\ \A k \in 1..(i - 1) : x[k] = y[k]

IsIndexSegment(seg) ==
    /\ UnsignedDigits(seg) # <<>>
    /\ \A i \in 1..Len(UnsignedDigits(seg)) : UnsignedDigits(seg)[i] \in 48..57
    /\ LET n == Significant(UnsignedDigits(seg))
       IN  Len(n) < Len(Max64) \/ (Len(n) = Len(Max64) /\ SameLengthLeq(n, Max64))

\* The index a segment names, as the numeral an error message shows.
IndexOf(seg) ==
    LET n == Significant(UnsignedDigits(seg)) IN IF n = <<>> THEN <<0>> ELSE n

\* The numeral of a natural number.
RECURSIVE DecimalOf(_)
DecimalOf(k) == IF k < 10 THEN <<k>> ELSE Append(DecimalOf(k \div 10), k % 10)

\* Whether an array of len elements has the index, counted from zero: the
\* index is the numeral of one of 0 .. len - 1.
Within(index, len) == \E k \in 0..(len - 1) : DecimalOf(k) = index

\* The element of the array at that index.
ElementAt(elems, index) ==
    elems[(CHOOSE k \in 0..(Len(elems) - 1) : DecimalOf(k) = index) + 1]

RECURSIVE Reached(_, _)
Reached(v, segs) ==
    IF segs = <<>> THEN [ok |-> TRUE, value |-> v]
    ELSE LET g == Head(segs)
             n == IndexOf(g)
         IN  IF IsIndexSegment(g)
             THEN IF v.t = "arr" /\ Within(n, Len(v.elems))
                  THEN Reached(ElementAt(v.elems, n), Tail(segs))
                  ELSE [ok |-> FALSE, error |-> "Array index {} not found", index |-> n]
             ELSE IF v.t = "obj" /\ g \in DOMAIN v.map
                  THEN Reached(v.map[g], Tail(segs))
                  ELSE [ok |-> FALSE, error |-> "Key '{}' not found", key |-> g]

\* {"18446744073709551616":[7],"18446744073709551615":8}
LargeKeysDoc == <<123,34,49,56,52,52,54,55,52,52,48,55,51,55,48,57,53,53,49,54,49,54,34,58,91,55,93,44,34,49,56,52,52,54,55,52,52,48,55,51,55,48,57,53,53,49,54,49,53,34,58,56,125>>

ExampleDoc == <<123,34,97,34,58,123,34,98,34,58,91,49,48,44,50,48,44,51,48,93,125,125>>

\* C8: for a JSON document, json_path_extract returns what walking the
\* non-empty dot-separated segments of the path reaches (an integer segment
\* indexes an array, any other looks up an object key), or the error naming
\* the first index or key not found; so the empty path returns the whole
\* document and "a..b", ".a.b" and "a.b" agree.  On {"a":{"b":[10,20,30]}}
\* the path "a.b.1" gives 20 and "a.c" fails naming the key c.  A segment of
\* digits too large for a 64-bit unsigned integer does not parse and is a key.
\* The call panics only inside the parser, on an overflow of its counters.
C8_JsonPathExtract ==
    /\ jp_pc = "panicked" => Overflowed(from_str(jp_json))
    /\ (jp_pc = "done" /\ ~from_str(jp_json).ok) => ~jp_result.ok
    /\ (jp_pc = "done" /\ from_str(jp_json).ok) =>
        /\ jp_result = Reached(from_str(jp_json).v, Segments(jp_path))
        /\ Segments(jp_path) = <<>> =>
               jp_result = [ok |-> TRUE, value |-> from_str(jp_json).v]
        /\ (jp_json = ExampleDoc /\ jp_path = <<97,46,98,46,49>>) =>
               jp_result = [ok |-> TRUE, value |-> [t |-> "num", lex |-> <<50, 48>>]]
        /\ (jp_json = ExampleDoc /\ jp_path = <<97,46,99>>) =>
               jp_result = [ok |-> FALSE, error |-> "Key '{}' not found", key |-> <<99>>]
        /\ (jp_json = ExampleDoc /\ jp_path \in {<<97,46,46,98>>, <<46,97,46,98>>, <<97,46,98>>}) =>
               jp_result =
                   [ok |-> TRUE,
                    value |-> [t |-> "arr",
                               elems |-> << [t |-> "num", lex |-> <<49, 48>>],
                                            [t |-> "num", lex |-> <<50, 48>>],
                                            [t |-> "num", lex |-> <<51, 48>>] >>]]
        /\ (jp_json = LargeKeysDoc /\ jp_path = <<49,56,52,52,54,55,52,52,48,55,51,55,48,57,53,53,49,54,49,54>>) =>
               jp_result = [ok |-> TRUE,
                            value |-> [t |-> "arr", elems |-> << [t |-> "num", lex |-> <<55>>] >>]]
        /\ (jp_json = LargeKeysDoc /\ jp_path = <<49,56,52,52,54,55,52,52,48,55,51,55,48,57,53,53,49,54,49,53>>) =>
               jp_result = [ok |-> FALSE, error |-> "Array index {} not found", index |-> Max64]

\* C8's case: on {"a":{"b":[10,20,30]}} the path "a.b.1" was walked through
\* two keys and one index and 20 was returned.
C8_Witness ==
    /\ jp_pc = "done"
    /\ jp_json = ExampleDoc
    /\ jp_path = <<97,46,98,46,49>>
    /\ jp_result.ok
    /\ jp_result.value = [t |-> "num", lex |-> <<50, 48>>]

(***************************************************************************)
(* format_size: what is to be printed, stated on the digits of the count.  *)
(***************************************************************************)
\* The highest base-1024 position of the count that is not 0 (0 for a count of 0).
TopDigit(digits) ==
    LET nz == {i \in 1..Len(digits) : digits[i] # 0}
    IN  IF nz = {} THEN 0 ELSE (CHOOSE i \in nz : \A k \in nz : k <= i) - 1

\* The unit the count is to be printed in: 0 = B, 1 = KB, 2 = MB, 3 = GB.
ExpectedUnit(digits) == IF TopDigit(digits) < 3 THEN TopDigit(digits) ELSE 3

UnitName(u) ==
    IF u = 0 THEN <<66>> ELSE IF u = 1 THEN <<75, 66>>
    ELSE IF u = 2 THEN <<77, 66>> ELSE <<71, 66>>

IsDigits(t) == t # <<>> /\ \A i \in 1..Len(t) : t[i] \in 48..57

\* The text before the first space of the result, and the text after it.
NumberPart(t) == SubSeq(t, 1, Find(t, 32) - 1)
UnitPart(t) == SubSeq(t, Find(t, 32) + 1, Len(t))

\* The count when it is below 1024^2, as a plain integer.
SmallCount(digits) == digits[1] + 1024 * digits[2]

\* C9: the loop of format_size runs at most 3 times and unit_index never
\* passes 3 (GB), and the function always returns; the unit printed is B
\* exactly for counts below 1024, and such a count is printed as an integer
\* without decimals; any other count is printed in the unit reached when the
\* value first drops below 1024, or GB, with exactly 2 decimals (a count of
\* 1024^4 or more in GB with a value of 1024 or more).  0 gives "0 B", 1024
\* "1.00 KB", 1536 "1.50 KB"; a KB value is the count over 1024 rounded to
\* the nearest hundredth.
C9_FormatSize ==
    /\ fs_divisions <= 3
    /\ unit_index <= 3
    /\ unit_index = fs_divisions
    /\ fs_pc = "loop" => ENABLED NextSize
    /\ fs_pc = "done" =>
        LET num == NumberPart(fs_result)
            dot == Find(num, 46)
        IN  /\ Find(fs_result, 32) > 1
            /\ unit_index = ExpectedUnit(fs_bytes)
            /\ UnitPart(fs_result) = UnitName(ExpectedUnit(fs_bytes))
            /\ (UnitPart(fs_result) = <<66>>) <=> (TopDigit(fs_bytes) = 0)
            /\ TopDigit(fs_bytes) = 0 =>
                   /\ IsDigits(num)
                   /\ num = Decimal(fs_bytes[1])
            /\ TopDigit(fs_bytes) > 0 =>
                   /\ dot > 1
                   /\ Len(num) = dot + 2
                   /\ IsDigits(SubSeq(num, 1, dot - 1))
                   /\ IsDigits(SubSeq(num, dot + 1, Len(num)))
            /\ TopDigit(fs_bytes) >= 4 =>
                   /\ UnitPart(fs_result) = <<71, 66>>
                   /\ Len(SubSeq(num, 1, dot - 1)) >= 4
            /\ TopDigit(fs_bytes) = 1 =>
                   \E whole \in 1..1024, cents \in 0..99 :
                       /\ num = Decimal(whole) \o <<46, 48 + (cents \div 10), 48 + (cents % 10)>>
                       /\ 2 * (100 * SmallCount(fs_bytes) - 1024 * (100 * whole + cents)) <= 1024
                       /\ 2 * (1024 * (100 * whole + cents) - 100 * SmallCount(fs_bytes)) <= 1024
            /\ fs_bytes = <<0, 0, 0, 0, 0>> => fs_result = <<48, 32, 66>>
            /\ fs_bytes = <<0, 1, 0, 0, 0>> => fs_result = <<49, 46, 48, 48, 32, 75, 66>>
            /\ fs_bytes = <<512, 1, 0, 0, 0>> => fs_result = <<49, 46, 53, 48, 32, 75, 66>>

\* C9's case: 1024^4 + 512 * 1024^2 bytes were divided three times and
\* printed as "1024.50 GB".
C9_Witness ==
    /\ fs_pc = "done"
    /\ fs_bytes = <<0, 0, 512, 0, 1>>
    /\ fs_divisions = 3
    /\ fs_result = <<49, 48, 50, 52, 46, 53, 48, 32, 71, 66>>

(***************************************************************************)
(* client.rs: properties of a call.                                       *)
(***************************************************************************)
Called == "method" \in DOMAIN call
SendAnswered == "ok" \in DOMAIN send_outcome
Returned == "ok" \in DOMAIN hc_result

\* Body texts that are no JSON: {not json   {"a":1,}   {   "   1}   {}}   the empty text
\* and {"a":1e999}, whose number no f64 holds
NotJson ==
    { <<123,110,111,116,32,106,115,111,110>>, <<123,34,97,34,58,49,44,125>>,
      <<123>>, <<34>>, <<49, 125>>, <<123, 125, 125>>, <<>>,
      <<123,34,97,34,58,49,101,57,57,57,125>> }

\* C1: when post or put is called with a body that does not parse as JSON,
\* the call has returned the error "Invalid JSON data provided" and send was
\* not invoked: no request was built, nothing was sent, nothing was read.
\* (Where a counter of the parser overflows, on a numeral of more than 2^31
\* digits, a build with overflow checks panics in the parser instead of
\* returning; nothing was built or sent then either.)
C1_InvalidPayloadBeforeSend ==
    /\ hc_pc = "panicked" =>
        /\ call.method \in {"POST", "PUT"}
        /\ Overflowed(from_str(call.data))
        /\ send_count = 0
        /\ request = None
    /\ (Called /\ call.method \in {"POST", "PUT"}
        /\ (~from_str(call.data).ok \/ call.data \in NotJson)) =>
        /\ \/ /\ hc_pc = "done"
              /\ hc_result = [ok |-> FALSE, context |-> <<"Invalid JSON data provided">>,
                              source |-> "serde_json"]
           \/ /\ Overflowed(from_str(call.data))
              /\ hc_pc = "panicked"
              /\ hc_result = None
        /\ send_count = 0
        /\ request = None
        /\ send_outcome = None
        /\ read_count = 0
        /\ partial = None

\* C1's case: post was called with the body {not json .
C1_Witness ==
    /\ Called
    /\ call.method = "POST"
    /\ call.data = <<123,110,111,116,32,106,115,111,110>>
    /\ hc_pc = "done"
    /\ send_count = 0

\* C5: when the transport send fails, the call (get, post, put or delete)
\* has returned an error that carries the cause and the URL under the
\* "Failed to send" context, send was invoked exactly once, the body was
\* never read and no response value was produced; and no call sends twice.
C5_TransportFailure ==
    /\ send_count <= 1
    /\ (SendAnswered /\ ~send_outcome.ok) =>
        /\ hc_pc = "done"
        /\ Returned
        /\ ~hc_result.ok
        /\ DOMAIN hc_result = {"ok", "context", "source"}
        /\ hc_result.source = send_outcome.cause
        /\ hc_result.context = <<"Failed to send ", call.method, " request to ", call.url>>
        /\ call.method \in {"GET", "POST", "PUT", "DELETE"}
        /\ send_count = 1
        /\ read_count = 0
        /\ partial = None

\* C5's case: a put with a JSON body was sent and the transport timed out.
C5_Witness ==
    /\ SendAnswered
    /\ ~send_outcome.ok
    /\ send_outcome.cause = "timeout"
    /\ call.method = "PUT"
    /\ call.data = <<123,34,97,34,58,49,125>>
    /\ hc_pc = "done"

TextOfContentType == <<99,111,110,116,101,110,116,45,116,121,112,101>>

\* A header value that is text: tabs and visible ASCII only.
ValidText(value) == \A i \in 1..Len(value) : value[i] \in ({9} \cup (32..126))

\* The values the response carries under a name, and those of them that are text.
ValuesOf(pairs, name) == {pairs[i].value : i \in {k \in 1..Len(pairs) : pairs[k].name = name}}
TextValuesOf(pairs, name) == {v \in ValuesOf(pairs, name) : ValidText(v)}

\* C6: in process_response a header value that is not text is left out of
\* the header mapping and does not fail the call; every header with a text
\* value is in the mapping; content_type is the content-type header's value
\* when that header is present with a text value and "text/plain" otherwise;
\* and the only failure is a failed body read.
C6_ResponseNormalization ==
    (SendAnswered /\ send_outcome.ok) =>
        LET pairs == send_outcome.response.headers
            names == {pairs[i].name : i \in 1..Len(pairs)}
        IN  /\ hc_pc \in {"reading", "done"}
            /\ \A n \in names :
                   /\ TextValuesOf(pairs, n) = {} => n \notin DOMAIN partial.headers
                   /\ TextValuesOf(pairs, n) # {} =>
                          /\ n \in DOMAIN partial.headers
                          /\ partial.headers[n] \in TextValuesOf(pairs, n)
            /\ DOMAIN partial.headers \subseteq names
            /\ IF TextValuesOf(pairs, TextOfContentType) # {}
               THEN partial.content_type \in TextValuesOf(pairs, TextOfContentType)
               ELSE partial.content_type = <<116,101,120,116,47,112,108,97,105,110>>
            /\ (Returned /\ ~hc_result.ok) =>
                   hc_result.context = <<"Failed to read response body">>


(***************************************************************************)
(* models.rs: properties of the builder calls.                             *)
(***************************************************************************)
TextOfAuthorization == <<65,117,116,104,111,114,105,122,97,116,105,111,110>>   \* "Authorization"
TextOfBearer == <<66,101,97,114,101,114,32>>                                \* "Bearer "
TextOfBasic == <<66,97,115,105,99,32>>                                     \* "Basic "

Flags(c) == <<c.pretty_print, c.follow_redirects, c.verify_ssl>>

HeaderWrites == {"add_header", "with_bearer_token", "with_basic_auth"}
FlagSetters == {"with_pretty_print", "with_redirects", "with_ssl_verification"}

\* The one key a header-writing call writes.
WrittenKey(c) == IF c.op = "add_header" THEN c.key ELSE TextOfAuthorization

\* Whether v is the value that call writes under its key.
IsWrittenValue(c, v) ==
    CASE c.op = "add_header" -> v = c.value
      [] c.op = "with_bearer_token" -> v = TextOfBearer \o c.token
      [] c.op = "with_basic_auth" ->
             LET token == AfterPrefix(v, TextOfBasic)
             IN  /\ Rfc4648Accepts(token)
                 /\ Rfc4648Decode(token) = as_bytes(c.username \o <<58>> \o c.password)

\* What one builder call, the one last_call' records, did to the configuration.
BuilderStep ==
    LET c == last_call'
        before == cfg.headers
        after == cfg'.headers
    IN  /\ c.op \in HeaderWrites \cup FlagSetters \cup {"with_headers"}
        /\ c.op \in HeaderWrites =>
               /\ DOMAIN after = DOMAIN before \cup {WrittenKey(c)}
               /\ IsWrittenValue(c, after[WrittenKey(c)])
               /\ \A k \in DOMAIN before \ {WrittenKey(c)} : after[k] = before[k]
               /\ Flags(cfg') = Flags(cfg)
        /\ c.op = "with_headers" =>
               /\ after = c.headers
               /\ \A k \in DOMAIN before \ DOMAIN c.headers : k \notin DOMAIN after
               /\ Flags(cfg') = Flags(cfg)
        /\ c.op \in FlagSetters =>
               /\ after = before
               /\ cfg'.pretty_print =
                      (IF c.op = "with_pretty_print" THEN c.flag ELSE cfg.pretty_print)
               /\ cfg'.follow_redirects =
                      (IF c.op = "with_redirects" THEN c.flag ELSE cfg.follow_redirects)
               /\ cfg'.verify_ssl =
                      (IF c.op = "with_ssl_verification" THEN c.flag ELSE cfg.verify_ssl)

\* C11: every builder call in a chain that starts from RequestConfig::new()
\* acts on the configuration as follows.  A header-writing call
\* (add_header, with_bearer_token, with_basic_auth) sets its one key to its
\* value, replacing any value the key had, and leaves every other key and the
\* three flags as they were, so the "Authorization" entry is always the one
\* written by the most recent of with_bearer_token, with_basic_auth and
\* add_header("Authorization", ..); with_headers makes the mapping exactly its
\* argument, dropping every earlier header, and leaves the flags as they were;
\* a flag setter leaves the mapping as it was and changes only its own flag.
C11_BuilderCalls == [][BuilderStep]_vars

\* C11's case: with_headers has just replaced a mapping that held an
\* Authorization header from with_basic_auth, after two flags had been changed.
C11_Witness ==
    /\ last_call = [op |-> "with_headers", headers |-> (<<65,99,99,101,112,116>> :> <<118>>)]
    /\ credentials # <<>>
    /\ TextOfAuthorization \notin DOMAIN cfg.headers
    /\ DOMAIN cfg.headers = {<<65,99,99,101,112,116>>}
    /\ cfg.pretty_print
    /\ ~cfg.verify_ssl

====
